---- MODULE Spec2Model ----
(***************************************************************************)
(* Range-preserving parser and keypath range extractor of tlsn-revolut.    *)
(*                                                                         *)
(* A transcript (the text of an HTTP request or response with a JSON-like  *)
(* body) is parsed by a pest grammar into a tree of pairs; try_from turns  *)
(* the pairs into a container (Request / Response) of RangedHeader and     *)
(* RangedValue; get_all_ranges_for_keypaths walks the container and        *)
(* returns the byte ranges to disclose.  The prover service commits the    *)
(* ranges of both transcripts in notarize and reveals them in              *)
(* create_presentation.                                                    *)
(*                                                                         *)
(* Strings are TLA+ strings: Len is the byte length (the model's texts are *)
(* ASCII), a Range<usize> a..b is the pair <<a, b>>, and slicing s[a..b]   *)
(* is SubSeq(s, a + 1, b).                                                 *)
(***************************************************************************)
EXTENDS Integers, Sequences, FiniteSets, Bags, TLC

VARIABLES
    msg,              \* which grammar parsed the transcript: "Request" / "Response"
    source,           \* the transcript text the ranges point into
    pairs,            \* the grammar's output: the top-level pairs, in order
    overflow_checks,  \* build profile: "on" = an arithmetic overflow panics (debug),
                      \* "off" = it wraps (release); "unobserved" until one happens
    container,        \* the outcome of try_from
    query,            \* the arguments of the last get_all_ranges_for_keypaths
    ranges,           \* the outcome of the last get_all_ranges_for_keypaths
    prev_ranges,      \* the outcome of the call before it
    pc,
    \* ProverService::notarize_and_create_presentation (prover.rs, utils.rs)
    request,          \* the request handed in: its URI scheme, the bytes it is sent as
    response,         \* the server's response: its status, the bytes received
    step,             \* the position of the run
    recv_ranges,      \* the local recv_ranges of notarize / create_presentation
    sent_ranges,      \* the local sent_ranges of notarize / create_presentation
    commits,          \* the ranges passed to commit_recv and to commit_sent, in order
    reveals,          \* the ranges passed to reveal_recv and to reveal_sent, in order
    events,           \* the steps of the run that reached a collaborator, in order
    outcome           \* what notarize_and_create_presentation returned

parserVars ==
    <<msg, source, pairs, overflow_checks, container, query, ranges, prev_ranges, pc>>
proverVars ==
    <<request, response, step, recv_ranges, sent_ranges, commits, reveals, events, outcome>>
vars == <<msg, source, pairs, overflow_checks, container, query, ranges, prev_ranges, pc,
          request, response, step, recv_ranges, sent_ranges, commits, reveals, events,
          outcome>>

(***************************************************************************)
(* Bounds of the model.                                                    *)
(***************************************************************************)
\* Largest number of values (containers and scalars) in a generated body.
MaxNodes == 3
\* Longest list of keypaths a query passes.
MaxKeypaths == 2
\* usize is 64 bits wide (32 on some targets); the model keeps the wrap-around
\* of unsigned subtraction at a narrower width, far above every offset of
\* every modelled transcript, so the only wrap is that of an underflow.
UsizeBits == 16
\* Largest number of children of a generated array or object of the builder's
\* inputs.
MaxItems == 2

UsizeModulus == 2 ^ UsizeBits

(***************************************************************************)
(* Small helpers.                                                          *)
(***************************************************************************)
Slice(s, a, b) == SubSeq(s, a + 1, b)

Range(f) == {f[i] : i \in DOMAIN f}

RECURSIVE SeqToBag(_)
SeqToBag(s) ==
    IF s = <<>> THEN EmptyBag ELSE SetToBag({Head(s)}) (+) SeqToBag(Tail(s))

RECURSIVE Flatten(_)
Flatten(ss) == IF ss = <<>> THEN <<>> ELSE Head(ss) \o Flatten(Tail(ss))

\* All orders in which the elements of the finite set S can be enumerated.
RECURSIVE Permutations_(_)
Permutations_(S) ==
    IF S = {} THEN {<<>>}
    ELSE UNION {{<<x>> \o p : p \in Permutations_(S \ {x})} : x \in S}

\* All sequences of length at most n over S.
RECURSIVE SeqsUpTo(_, _)
SeqsUpTo(S, n) ==
    IF n = 0 THEN {<<>>}
    ELSE LET shorter == SeqsUpTo(S, n - 1)
         IN  shorter \cup {Append(s, x) : s \in shorter, x \in S}

(***************************************************************************)
(* The values a body is made of, before serialisation.                     *)
(***************************************************************************)
DNull == [k |-> "null", text |-> "null", items |-> <<>>, entries |-> <<>>]
DNum(t) == [k |-> "number", text |-> t, items |-> <<>>, entries |-> <<>>]
DBool(t) == [k |-> "boolean", text |-> t, items |-> <<>>, entries |-> <<>>]
DStr(t) == [k |-> "string", text |-> t, items |-> <<>>, entries |-> <<>>]
DArr(xs) == [k |-> "array", text |-> "", items |-> xs, entries |-> <<>>]
DObj(es) == [k |-> "object", text |-> "", items |-> <<>>, entries |-> es]

\* Object keys of the generated bodies, of different byte lengths.
KeyList == <<"a", "bc">>

Scalars == {DNull, DNum("1"), DBool("true"), DStr("s")}

\* The key sequences of an object with k entries: k distinct keys, in the
\* order of KeyList.
KeySeqs(k) ==
    {ks \in [1..k -> Range(KeyList)] :
        \A i, j \in 1..k : i < j =>
            \E p, q \in DOMAIN KeyList : p < q /\ KeyList[p] = ks[i] /\ KeyList[q] = ks[j]}

RECURSIVE TreesOfSize(_), Forests(_, _)
\* The sequences of k values with n nodes in all.
Forests(n, k) ==
    IF k = 0 THEN (IF n = 0 THEN {<<>>} ELSE {})
    ELSE UNION {{<<t>> \o f : t \in TreesOfSize(m), f \in Forests(n - m, k - 1)} :
                    m \in 1..(n - k + 1)}
\* The values with exactly n nodes.
TreesOfSize(n) ==
    IF n = 1 THEN Scalars \cup {DArr(<<>>), DObj(<<>>)}
    ELSE LET forests(k) == Forests(n - 1, k)
         IN  {DArr(f) : f \in UNION {forests(k) : k \in 1..(n - 1)}}
             \cup UNION {{DObj([i \in 1..k |-> <<ks[i], f[i]>>]) :
                              ks \in KeySeqs(k), f \in forests(k)} :
                         k \in 1..Len(KeyList)}

IsContainer(d) == d.k \in {"object", "array"}

\* The examples of the specification's section 8 and a root-level array.
ExampleNested == DObj(<<<<"a", DObj(<<<<"b", DNum("1")>>, <<"c", DNum("2")>>>>)>>>>)
ExampleItems ==
    DObj(<<<<"items", DArr(<<DObj(<<<<"x", DNum("1")>>>>), DObj(<<<<"x", DNum("2")>>>>)>>)>>>>)
ExampleRootArray ==
    DArr(<<DObj(<<<<"a", DNull>>>>), DArr(<<DObj(<<<<"a", DStr("s")>>>>)>>)>>)
ExampleDocs == {ExampleNested, ExampleItems, ExampleRootArray}

Docs ==
    {d \in UNION {TreesOfSize(n) : n \in 1..MaxNodes} : IsContainer(d)} \cup ExampleDocs

(***************************************************************************)
(* The grammar's output (request.pest / response.pest are not part of the  *)
(* sources at hand; their shape is the one the builder's code and the      *)
(* specification's sections 4.2 and 6 expect).  A pair is a node           *)
(* [rule, start, end, inner]; as_str() is the source sliced by its span.   *)
(***************************************************************************)
Pair(rule, start, end, inner) ==
    [rule |-> rule, start |-> start, end |-> end, inner |-> inner]

as_str(src, pair) == Slice(src, pair.start, pair.end)

RECURSIVE Text(_), ItemsText(_), EntriesText(_)
\* The compact serialisation: "key":value entries joined by commas.
Text(d) ==
    CASE d.k = "string" -> "\"" \o d.text \o "\""
      [] d.k = "array" -> "[" \o ItemsText(d.items) \o "]"
      [] d.k = "object" -> "{" \o EntriesText(d.entries) \o "}"
      [] OTHER -> d.text
ItemsText(xs) ==
    IF xs = <<>> THEN ""
    ELSE Text(Head(xs)) \o (IF Len(xs) > 1 THEN "," ELSE "") \o ItemsText(Tail(xs))
EntriesText(es) ==
    IF es = <<>> THEN ""
    ELSE "\"" \o Head(es)[1] \o "\":" \o Text(Head(es)[2])
         \o (IF Len(es) > 1 THEN "," ELSE "") \o EntriesText(Tail(es))

\* A string token: the quotes are part of the token, the text between them
\* is its inner token (none when the string is empty).
StringNode(text, pos) ==
    Pair("string", pos, pos + Len(text) + 2,
         IF text = "" THEN <<>>
         ELSE <<Pair("inner", pos + 1, pos + 1 + Len(text), <<>>)>>)

RECURSIVE Node(_, _), ItemNodes(_, _), EntryNodes(_, _)
\* The pair the grammar produces for the value d serialised at offset pos.
Node(d, pos) ==
    CASE d.k = "string" -> StringNode(d.text, pos)
      [] d.k = "array" ->
            Pair("array", pos, pos + Len(Text(d)), ItemNodes(d.items, pos + 1))
      [] d.k = "object" ->
            Pair("object", pos, pos + Len(Text(d)), EntryNodes(d.entries, pos + 1))
      [] OTHER -> Pair(d.k, pos, pos + Len(d.text), <<>>)
ItemNodes(xs, pos) ==
    IF xs = <<>> THEN <<>>
    ELSE LET n == Node(Head(xs), pos)
         IN  <<n>> \o ItemNodes(Tail(xs), n.end + 1)
EntryNodes(es, pos) ==
    IF es = <<>> THEN <<>>
    ELSE LET key == StringNode(Head(es)[1], pos)
             val == Node(Head(es)[2], key.end + 1)
         IN  <<Pair("pair", pos, val.end, <<key, val>>)>>
             \o EntryNodes(Tail(es), val.end + 1)

CRLF == "\r\n"
RequestLineText == "GET /p HTTP/1.1"
StatusLineText == "HTTP/1.1 200 OK"

HeaderText(h) == h[1] \o ": " \o h[2]

RECURSIVE HeadersText(_)
HeadersText(hs) ==
    IF hs = <<>> THEN "" ELSE HeaderText(Head(hs)) \o CRLF \o HeadersText(Tail(hs))

\* A header line "name: value": the header pair spans the line without its
\* line terminator; its children are the name and the value.
HeaderNode(h, pos) ==
    Pair("header", pos, pos + Len(HeaderText(h)),
         <<Pair("header_name", pos, pos + Len(h[1]), <<>>),
           Pair("header_value", pos + Len(h[1]) + 2, pos + Len(HeaderText(h)), <<>>)>>)

RECURSIVE HeaderNodes(_, _)
HeaderNodes(hs, pos) ==
    IF hs = <<>> THEN <<>>
    ELSE <<HeaderNode(Head(hs), pos)>>
         \o HeaderNodes(Tail(hs), pos + Len(HeaderText(Head(hs))) + Len(CRLF))

FirstLineText(m) == IF m = "Request" THEN RequestLineText ELSE StatusLineText

\* The transcript of a message: first line, header lines, blank line, body.
TranscriptText(m, hs, body) ==
    FirstLineText(m) \o CRLF \o HeadersText(hs) \o CRLF \o Text(body)

\* The top-level pairs of a parsed transcript (the message rule is silent).
TranscriptPairs(m, hs, body) ==
    LET first == FirstLineText(m)
        hstart == Len(first) + Len(CRLF)
        bstart == hstart + Len(HeadersText(hs)) + Len(CRLF)
        total == Len(TranscriptText(m, hs, body))
    IN  <<Pair(IF m = "Request" THEN "request_line" ELSE "status_line",
               0, Len(first), <<>>)>>
        \o HeaderNodes(hs, hstart)
        \o <<Node(body, bstart), Pair("EOI", total, total, <<>>)>>

\* The header lines of the modelled transcripts (the example of section 8).
HeaderLines == <<<<"host", "example.com">>, <<"accept", "*/*">>>>

(***************************************************************************)
(* The inputs of the tree builder: bodies with literals that do not parse, *)
(* empty strings and repeated keys, and parse trees that lack a child the  *)
(* builder expects or hold a node of a kind it does not convert.           *)
(***************************************************************************)
\* "-" is not a 64-bit float and "False" is not a boolean of str::parse.
BuildScalars == {DNull, DNum("1"), DNum("-"), DBool("False"), DStr("")}
EntryScalars == {DNum("1"), DNum("-"), DStr("s")}

\* Arrays of scalars, and objects of scalar entries whose keys may repeat.
FlatArrays == {DArr(f) : f \in SeqsUpTo(BuildScalars, MaxItems)}
FlatObjects ==
    {DObj(es) : es \in SeqsUpTo({<<k, v>> : k \in Range(KeyList), v \in EntryScalars},
                                MaxItems)}

\* Nested bodies: a literal that does not parse next to siblings and under
\* ancestors, a repeated key with object values, an empty string as an
\* entry's value, an empty key.
BuildExamples ==
    {DObj(<<<<"a", DArr(<<DNum("-"), DStr("")>>)>>, <<"bc", DBool("true")>>>>),
     DArr(<<DObj(<<<<"a", DBool("False")>>>>), DObj(<<<<"a", DStr("s")>>>>)>>),
     DObj(<<<<"a", DObj(<<<<"bc", DStr("")>>>>)>>, <<"a", DObj(<<<<"bc", DNum("1")>>>>)>>>>),
     DObj(<<<<"a", DObj(<<<<"bc", DNum("1")>>>>)>>, <<"a", DNull>>>>),
     DObj(<<<<"a", DStr("")>>, <<"bc", DStr("s")>>>>),
     DObj(<<<<"", DNum("1")>>>>)}

BuildDocs == FlatArrays \cup FlatObjects \cup BuildExamples \cup ExampleDocs

RuleKinds ==
    {"object", "array", "string", "number", "boolean", "null", "pair", "inner",
     "header", "header_name", "header_value", "request_line", "status_line", "EOI"}

\* The node with its i-th child replaced by t.
WithChild(node, i, t) == [node EXCEPT !.inner = [node.inner EXCEPT ![i] = t]]

\* The parse trees that differ from node by one defect at one place: an
\* object entry without its value node, without any child or with a key
\* without inner token; a header without its value or without any child; a
\* value of an array or of an entry that is of a structural kind.
RECURSIVE Defects(_, _)
Defects(node, is_child_value) ==
    LET own ==
            CASE node.rule = "pair" ->
                    {[node EXCEPT !.inner = <<>>]}
                    \cup (IF Len(node.inner) >= 2
                          THEN {[node EXCEPT !.inner = <<node.inner[1]>>],
                                WithChild(node, 1, [node.inner[1] EXCEPT !.inner = <<>>])}
                          ELSE {})
              [] node.rule = "header" ->
                    {[node EXCEPT !.inner = <<>>], [node EXCEPT !.inner = <<node.inner[1]>>]}
              [] is_child_value -> {[node EXCEPT !.rule = "EOI"]}
              [] OTHER -> {}
        below(i) ==
            Defects(node.inner[i],
                    \/ node.rule = "array"
                    \/ node.rule = "pair" /\ i = 2)
    IN  own \cup UNION {{WithChild(node, i, t) : t \in below(i)} : i \in DOMAIN node.inner}

\* A header node with a third child after the name and the value.
WithExtraChild(node) ==
    [node EXCEPT !.inner = Append(node.inner, Pair("header_value", node.end, node.end, <<>>))]

\* The top-level pairs with the i-th pair replaced by t.
WithPair(ps, i, t) == [ps EXCEPT ![i] = t]

\* The builder's inputs: every body as the grammar parses it; every body
\* with one defect in its parse tree; the examples with one defect in a
\* header or a header with a third child.
BuildInputs(m) ==
    LET ps(body) == TranscriptPairs(m, HeaderLines, body)
        body_at == 1 + Len(HeaderLines) + 1
        header_at == 2..(1 + Len(HeaderLines))
    IN  {[body |-> body, pairs |-> ps(body)] : body \in BuildDocs}
        \cup UNION {{[body |-> body, pairs |-> WithPair(ps(body), body_at, t)] :
                        t \in Defects(ps(body)[body_at], FALSE)} : body \in BuildDocs}
        \cup UNION {UNION {{[body |-> body, pairs |-> WithPair(ps(body), i, t)] :
                              t \in Defects(ps(body)[i], FALSE)
                                    \cup {WithExtraChild(ps(body)[i])}} :
                            i \in header_at} : body \in ExampleDocs}

(***************************************************************************)
(* Rule classification (request.rs, response.rs) and the tree builder      *)
(* (ast.rs).  A panic is the value [kind |-> "Panic"]: it replaces the     *)
(* result of every call it unwinds through.                                *)
(***************************************************************************)
\* impl CommonRule for request::Rule
rule_type(rule) ==
    CASE rule = "object" -> "Object"
      [] rule = "array" -> "Array"
      [] rule = "string" -> "String"
      [] rule = "number" -> "Number"
      [] rule = "boolean" -> "Boolean"
      [] rule = "null" -> "Null"
      [] OTHER -> "Other"

\* Mutant of response_rule_type: the arm of null is missing from the match.
response_rule_type_NullUnmapped(rule) ==
    CASE rule = "object" -> "Object"
      [] rule = "array" -> "Array"
      [] rule = "string" -> "String"
      [] rule = "number" -> "Number"
      [] rule = "boolean" -> "Boolean"
      [] OTHER -> "Other"

\* impl CommonRule for response::Rule
response_rule_type(rule) ==
    CASE rule = "object" -> "Object"
      [] rule = "array" -> "Array"
      [] rule = "string" -> "String"
      [] rule = "number" -> "Number"
      [] rule = "boolean" -> "Boolean"
      [] rule = "null" -> "Null"
      [] OTHER -> "Other"

\* pair.as_rule().rule_type() for a Pair<R>: R is the Rule type of the
\* grammar that produced the pair, "Request" or "Response".
RuleTypeOf(R, rule) ==
    IF R = "Request" THEN rule_type(rule) ELSE response_rule_type(rule)

\* Mutant of SpanRange: the range ends where it starts (start..start).
SpanRange_StartOnly(pair) == <<pair.start, pair.start>>

\* Mutant of SpanRange: the first and the last byte of the span (a token's
\* delimiters) are left out.
SpanRange_WithoutDelimiters(pair) == <<pair.start + 1, pair.end - 1>>

\* pair.as_span().start()..pair.as_span().end()
SpanRange(pair) == <<pair.start, pair.end>>

Panic(message) == [kind |-> "Panic", message |-> message]
IsPanic(v) == v.kind = "Panic"

\* Mutant of Unreachable: the Other arm yields a Null value instead of
\* failing.
Unreachable_AsNull(message) == [kind |-> "Null"]

\* unreachable!(message)
Unreachable(message) == Panic(message)

\* str::parse::<f64>() on the numeric literals of the model; any other text
\* is an error, which unwrap_or_default turns into 0.
F64Literals == [t \in {"0", "1", "2"} |-> CASE t = "0" -> 0 [] t = "1" -> 1 [] t = "2" -> 2]
\* Mutant of ParseF64OrDefault: the fallback is 1, not f64::default().
ParseF64OrDefault_One(text) == IF text \in DOMAIN F64Literals THEN F64Literals[text] ELSE 1

ParseF64OrDefault(text) == IF text \in DOMAIN F64Literals THEN F64Literals[text] ELSE 0

\* str::parse::<bool>(): "true" and "false" only; default false.
ParseBoolOrDefault(text) == text = "true"

RangedHeader(range, value) == [range |-> range, _value |-> value]

\* Mutant of parse_header: a missing child is taken as an empty text
\* (unwrap_or_default in place of ok_or(..)?).
parse_header_Lenient(src, pair) ==
    LET range == SpanRange(pair)
        inner == pair.inner
    IN  [ok |-> TRUE,
         key |-> IF Len(inner) < 1 THEN "" ELSE as_str(src, inner[1]),
         header |-> RangedHeader(range, IF Len(inner) < 2 THEN "" ELSE as_str(src, inner[2]))]

\* Mutant of parse_header: the range is the span of the value child alone.
parse_header_ValueRange(src, pair) ==
    LET inner == pair.inner
    IN  IF Len(inner) < 1 THEN [ok |-> FALSE, error |-> "Missing key in header"]
        ELSE IF Len(inner) < 2 THEN [ok |-> FALSE, error |-> "Missing value in header"]
        ELSE [ok |-> TRUE,
              key |-> as_str(src, inner[1]),
              header |-> RangedHeader(SpanRange(inner[2]), as_str(src, inner[2]))]

\* Result<(String, RangedHeader), &str>
parse_header(src, pair) ==
    LET range == SpanRange(pair)
        inner == pair.inner
    IN  IF Len(inner) < 1 THEN [ok |-> FALSE, error |-> "Missing key in header"]
        ELSE IF Len(inner) < 2 THEN [ok |-> FALSE, error |-> "Missing value in header"]
        ELSE [ok |-> TRUE,
              key |-> as_str(src, inner[1]),
              header |-> RangedHeader(range, as_str(src, inner[2]))]

\* The first panic among the results rs, in order, if any.
FirstPanic(rs) ==
    LET hit == {i \in DOMAIN rs : IsPanic(rs[i])}
    IN  IF hit = {} THEN <<>>
        ELSE <<rs[CHOOSE i \in hit : \A j \in hit : i <= j]>>

\* Mutant of CollectHashMap: the first entry with a key is kept (an insert
\* that does not replace).
CollectHashMap_FirstWins(es) ==
    [key \in {es[i].key : i \in DOMAIN es} |->
        LET first == CHOOSE i \in DOMAIN es :
                         /\ es[i].key = key
                         /\ \A j \in DOMAIN es : es[j].key = key => i <= j
        IN  es[first].value]

\* collect::<HashMap<_, _>>() of (key, value) entries: a later entry with
\* the same key replaces the earlier one.
CollectHashMap(es) ==
    [key \in {es[i].key : i \in DOMAIN es} |->
        LET last == CHOOSE i \in DOMAIN es :
                        /\ es[i].key = key
                        /\ \A j \in DOMAIN es : es[j].key = key => j <= i
        IN  es[last].value]

\* Mutant of CollectVec: the elements end up in the reverse order.
CollectVec_Reversed(vs) == [i \in DOMAIN vs |-> vs[Len(vs) + 1 - i]]

\* collect::<Vec<_>>(): the elements in the iterator's order.
CollectVec(vs) == vs

RECURSIVE parse_value(_, _, _), parse_object_entry(_, _, _)
parse_value(R, src, pair) ==
    LET range == SpanRange(pair)
        kind == RuleTypeOf(R, pair.rule)
    IN  CASE kind = "Object" ->
                LET es == [i \in DOMAIN pair.inner |->
                              parse_object_entry(R, src, pair.inner[i])]
                    panic == FirstPanic(es)
                IN  IF panic # <<>> THEN panic[1]
                    ELSE [kind |-> "Object", range |-> range, value |-> CollectHashMap(es)]
          [] kind = "Array" ->
                LET vs == [i \in DOMAIN pair.inner |-> parse_value(R, src, pair.inner[i])]
                    panic == FirstPanic(vs)
                IN  IF panic # <<>> THEN panic[1]
                    ELSE [kind |-> "Array", range |-> range, value |-> CollectVec(vs)]
          [] kind = "String" ->
                [kind |-> "String", range |-> range,
                 _value |-> IF pair.inner = <<>> THEN "" ELSE as_str(src, pair.inner[1])]
          [] kind = "Number" ->
                [kind |-> "Number", range |-> range,
                 _value |-> ParseF64OrDefault(as_str(src, pair))]
          [] kind = "Boolean" ->
                [kind |-> "Bool", range |-> range,
                 _value |-> ParseBoolOrDefault(as_str(src, pair))]
          [] kind = "Null" -> [kind |-> "Null"]
          [] OTHER -> Unreachable("Unexpected rule in parse_value")
\* (String, RangedValue) as [kind |-> "Entry", key, value], or a panic.
parse_object_entry(R, src, pair) ==
    LET inner_rules == pair.inner
    IN  IF Len(inner_rules) < 1 THEN Panic("Missing key in object entry")
        ELSE IF inner_rules[1].inner = <<>> THEN Panic("Missing key in object entry")
        ELSE IF Len(inner_rules) < 2 THEN Panic("Missing value in object entry")
        ELSE LET value == parse_value(R, src, inner_rules[2])
             IN  IF IsPanic(value) THEN value
                 ELSE [kind |-> "Entry",
                       key |-> as_str(src, inner_rules[1].inner[1]),
                       value |-> value]

\* RangedValue::default(): an Object with the range 0..0 and no entry.
DefaultRangedValue == [kind |-> "Object", range |-> <<0, 0>>, value |-> <<>>]

get_range(v) ==
    IF v.kind = "Null" THEN <<0, 0>> ELSE v.range

(***************************************************************************)
(* Request::try_from and Response::try_from: one pass over the top-level   *)
(* pairs.  acc holds the loop's locals; the pass stops at the first header *)
(* error (the ? operator) or panic.                                        *)
(***************************************************************************)
\* Mutant of HashMapInsert: a key already in the map keeps its value.
HashMapInsert_KeepFirst(map, key, value) ==
    [k \in DOMAIN map \cup {key} |-> IF k \in DOMAIN map THEN map[k] ELSE value]

\* HashMap::insert(key, value): keys are compared byte for byte and the value
\* of a key already in the map is replaced.
HashMapInsert(map, key, value) ==
    [k \in DOMAIN map \cup {key} |-> IF k = key THEN value ELSE map[k]]

RECURSIVE TryFromLoop(_, _, _, _)
TryFromLoop(m, src, ps, acc) ==
    IF ps = <<>> \/ acc.status # "Ok" THEN acc
    ELSE LET pair == Head(ps)
             next ==
                CASE m = "Request" /\ pair.rule = "request_line" ->
                        [acc EXCEPT !.request_line =
                            <<RangedHeader(SpanRange(pair), as_str(src, pair))>>]
                  [] pair.rule = "header" ->
                        LET header == parse_header(src, pair)
                        IN  IF header.ok
                            THEN [acc EXCEPT !.headers =
                                    HashMapInsert(acc.headers, header.key, header.header)]
                            ELSE [acc EXCEPT !.status = "Err", !.error = header.error]
                  [] pair.rule \in {"object", "array"} ->
                        LET content == parse_value(m, src, pair)
                        IN  IF IsPanic(content)
                            THEN [acc EXCEPT !.status = "Panic", !.error = content.message]
                            ELSE [acc EXCEPT !.content = content]
                  [] OTHER -> acc
         IN  TryFromLoop(m, src, Tail(ps), next)

TryFromLocals ==
    [status |-> "Ok", error |-> "", request_line |-> <<>>, headers |-> <<>>,
     content |-> DefaultRangedValue]

\* Mutant of RequestTryFrom: a tree without a request_line node is given an
\* empty request line instead of the error.
RequestTryFrom_DefaultLine(src, ps) ==
    LET acc == TryFromLoop("Request", src, ps, TryFromLocals)
    IN  IF acc.status # "Ok" THEN [status |-> acc.status, error |-> acc.error]
        ELSE [status |-> "Ok", type |-> "Request",
              request_line |-> IF acc.request_line = <<>>
                               THEN RangedHeader(<<0, 0>>, "")
                               ELSE acc.request_line[1],
              headers |-> acc.headers,
              content |-> <<acc.content>>]

\* Result<Request, &str>; content is Some(content) in every Ok result.
RequestTryFrom(src, ps) ==
    LET acc == TryFromLoop("Request", src, ps, TryFromLocals)
    IN  IF acc.status # "Ok" THEN [status |-> acc.status, error |-> acc.error]
        ELSE IF acc.request_line = <<>>
        THEN [status |-> "Err", error |-> "Missing request line"]
        ELSE [status |-> "Ok", type |-> "Request",
              request_line |-> acc.request_line[1],
              headers |-> acc.headers,
              content |-> <<acc.content>>]

\* Result<Response, &str>
ResponseTryFrom(src, ps) ==
    LET acc == TryFromLoop("Response", src, ps, TryFromLocals)
    IN  IF acc.status # "Ok" THEN [status |-> acc.status, error |-> acc.error]
        ELSE [status |-> "Ok", type |-> "Response",
              headers |-> acc.headers,
              content |-> acc.content]

(***************************************************************************)
(* Searchable (ast.rs): the range search.                                  *)
(***************************************************************************)
get_headers(c) == c.headers

\* Option<&RangedValue>: a sequence of at most one value.
get_content(c) == IF c.type = "Request" THEN c.content ELSE <<c.content>>

\* Mutant of get_additional_ranges: the trait's default body for every
\* container (Request without its override).
get_additional_ranges_Default(c) == <<>>

get_additional_ranges(c) ==
    IF c.type = "Request" THEN <<c.request_line.range>> ELSE <<>>

\* Mutant of Contains: only the first element of the list is compared.
Contains_FirstOnly(list, x) == list # <<>> /\ list[1] = x

\* slice.contains(&x)
Contains(list, x) == \E i \in DOMAIN list : list[i] = x

\* [String]::join(sep)
RECURSIVE Join(_, _)
Join(path, sep) ==
    IF path = <<>> THEN ""
    ELSE IF Len(path) = 1 THEN path[1]
    ELSE path[1] \o sep \o Join(Tail(path), sep)

\* a - b on usize: the difference, wrapped when a < b, and whether it wrapped.
UsizeSub(a, b) ==
    [value |-> IF a >= b THEN a - b ELSE a - b + UsizeModulus, overflow |-> a < b]

\* Mutant of EntryStart: one delimiter byte too few (start - key.len() - 2).
EntryStart_TwoDelimiters(start, key) ==
    LET first == UsizeSub(start, Len(key))
        second == UsizeSub(first.value, 2)
    IN  [value |-> second.value, overflow |-> first.overflow \/ second.overflow]

\* start - key.len() - 3, evaluated left to right.
EntryStart(start, key) ==
    LET first == UsizeSub(start, Len(key))
        second == UsizeSub(first.value, 3)
    IN  [value |-> second.value, overflow |-> first.overflow \/ second.overflow]

\* A HashMap is iterated in an arbitrary order.  An iteration view of a value
\* fixes that order for every Object in it: the Object's entries become the
\* sequence of <<key, view of the child>> the for loop goes through.
RECURSIVE IterationViews(_)
IterationViews(v) ==
    CASE v.kind = "Object" ->
            LET keys == DOMAIN v.value
                children == {f \in [keys -> UNION {IterationViews(v.value[k]) : k \in keys}] :
                                \A k \in keys : f[k] \in IterationViews(v.value[k])}
            IN  {[kind |-> "Object", range |-> v.range,
                  value |-> [i \in DOMAIN order |-> <<order[i], f[order[i]]>>]] :
                    order \in Permutations_(keys), f \in children}
      [] v.kind = "Array" ->
            LET idx == DOMAIN v.value
                children == {f \in [idx -> UNION {IterationViews(v.value[i]) : i \in idx}] :
                                \A i \in idx : f[i] \in IterationViews(v.value[i])}
            IN  {[kind |-> "Array", range |-> v.range, value |-> f] : f \in children}
      [] OTHER -> {v}

\* Mutant of search_content_by_path: an entry is matched by its key alone,
\* not by its path (the matching of the retired get_all_ranges_for_keys).
RECURSIVE search_content_by_key(_, _, _)
search_content_by_key(keypaths, content, current_path) ==
    CASE content.kind = "Object" ->
            Flatten([i \in DOMAIN content.value |->
                LET key == content.value[i][1]
                    val == content.value[i][2]
                    start == EntryStart(get_range(val)[1], key)
                    end == get_range(val)[2]
                IN  (IF Contains(keypaths, key)
                     THEN <<[range |-> <<start.value, end>>, overflow |-> start.overflow]>>
                     ELSE <<>>)
                    \o search_content_by_key(keypaths, val, Append(current_path, key))])
      [] content.kind = "Array" ->
            Flatten([i \in DOMAIN content.value |->
                search_content_by_key(keypaths, content.value[i], current_path)])
      [] OTHER -> <<>>

\* Mutant of search_content_by_path: only the first element of an array is
\* searched.
RECURSIVE search_content_first_item(_, _, _)
search_content_first_item(keypaths, content, current_path) ==
    CASE content.kind = "Object" ->
            Flatten([i \in DOMAIN content.value |->
                LET key == content.value[i][1]
                    val == content.value[i][2]
                    new_path == Append(current_path, key)
                    start == EntryStart(get_range(val)[1], key)
                    end == get_range(val)[2]
                IN  (IF Contains(keypaths, Join(new_path, "."))
                     THEN <<[range |-> <<start.value, end>>, overflow |-> start.overflow]>>
                     ELSE <<>>)
                    \o search_content_first_item(keypaths, val, new_path)])
      [] content.kind = "Array" ->
            IF content.value = <<>> THEN <<>>
            ELSE search_content_first_item(keypaths, content.value[1], current_path)
      [] OTHER -> <<>>

\* Mutant of search_content_by_path: a matched entry's value is not searched
\* (the recursion sits in the else branch of the match).
RECURSIVE search_content_no_descent(_, _, _)
search_content_no_descent(keypaths, content, current_path) ==
    CASE content.kind = "Object" ->
            Flatten([i \in DOMAIN content.value |->
                LET key == content.value[i][1]
                    val == content.value[i][2]
                    new_path == Append(current_path, key)
                    start == EntryStart(get_range(val)[1], key)
                    end == get_range(val)[2]
                IN  IF Contains(keypaths, Join(new_path, "."))
                    THEN <<[range |-> <<start.value, end>>, overflow |-> start.overflow]>>
                    ELSE search_content_no_descent(keypaths, val, new_path)])
      [] content.kind = "Array" ->
            Flatten([i \in DOMAIN content.value |->
                search_content_no_descent(keypaths, content.value[i], current_path)])
      [] OTHER -> <<>>

\* The pushes of the walk, in order: each the range pushed and whether its
\* start underflowed.
RECURSIVE search_content_by_path(_, _, _)
search_content_by_path(keypaths, content, current_path) ==
    CASE content.kind = "Object" ->
            Flatten([i \in DOMAIN content.value |->
                LET key == content.value[i][1]
                    val == content.value[i][2]
                    new_path == Append(current_path, key)
                    path_str == Join(new_path, ".")
                    start == EntryStart(get_range(val)[1], key)
                    end == get_range(val)[2]
                IN  (IF Contains(keypaths, path_str)
                     THEN <<[range |-> <<start.value, end>>, overflow |-> start.overflow]>>
                     ELSE <<>>)
                    \o search_content_by_path(keypaths, val, new_path)])
      [] content.kind = "Array" ->
            Flatten([i \in DOMAIN content.value |->
                search_content_by_path(keypaths, content.value[i], current_path)])
      [] OTHER -> <<>>

\* The orders the maps of a container can be iterated in: one for the header
\* map, one iteration view of the content.
IterationOrders(c) ==
    {[headers |-> ho, content |-> cv] :
        ho \in Permutations_(DOMAIN get_headers(c)),
        cv \in IF get_content(c) = <<>> THEN {<<>>}
               ELSE {<<view>> : view \in IterationViews(get_content(c)[1])}}

\* Mutant of Pushes: every header's range is pushed, requested or not.
Pushes_EveryHeader(c, keypaths, headers, order) ==
    [i \in DOMAIN get_additional_ranges(c) |->
        [range |-> get_additional_ranges(c)[i], overflow |-> FALSE]]
    \o [i \in DOMAIN order.headers |->
            [range |-> get_headers(c)[order.headers[i]].range, overflow |-> FALSE]]
    \o (IF order.content = <<>> THEN <<>>
        ELSE search_content_by_path(keypaths, order.content[1], <<>>))

\* Mutant of Pushes: the header loop stops at the first requested header it
\* meets.
Pushes_FirstHeaderOnly(c, keypaths, headers, order) ==
    LET hits == {i \in DOMAIN order.headers : Contains(headers, order.headers[i])}
    IN  [i \in DOMAIN get_additional_ranges(c) |->
            [range |-> get_additional_ranges(c)[i], overflow |-> FALSE]]
        \o (IF hits = {} THEN <<>>
            ELSE <<[range |-> get_headers(c)[order.headers[
                                  CHOOSE i \in hits : \A j \in hits : i <= j]].range,
                    overflow |-> FALSE]>>)
        \o (IF order.content = <<>> THEN <<>>
            ELSE search_content_by_path(keypaths, order.content[1], <<>>))

\* The pushes of a call under the iteration order `order`, in order: the
\* additional ranges, the matching headers' ranges, the content's.
Pushes(c, keypaths, headers, order) ==
    LET additional == [i \in DOMAIN get_additional_ranges(c) |->
                          [range |-> get_additional_ranges(c)[i], overflow |-> FALSE]]
        header_ranges ==
            Flatten([i \in DOMAIN order.headers |->
                IF Contains(headers, order.headers[i])
                THEN <<[range |-> get_headers(c)[order.headers[i]].range,
                        overflow |-> FALSE]>>
                ELSE <<>>])
        content_ranges ==
            IF order.content = <<>> THEN <<>>
            ELSE search_content_by_path(keypaths, order.content[1], <<>>)
    IN  additional \o header_ranges \o content_ranges

Overflowed(pushes) == \E i \in DOMAIN pushes : pushes[i].overflow

\* The call's outcome: the Vec returned, or the panic of an overflowing
\* subtraction in a build that checks overflow.
get_all_ranges_for_keypaths(c, keypaths, headers, order, checks) ==
    LET pushes == Pushes(c, keypaths, headers, order)
    IN  IF checks = "on" /\ Overflowed(pushes)
        THEN [status |-> "Panic", ranges |-> <<>>]
        ELSE [status |-> "Ok", ranges |-> [i \in DOMAIN pushes |-> pushes[i].range]]

(***************************************************************************)
(* The queries of the model.                                               *)
(***************************************************************************)
KeypathPool == {"a", "a.bc"}

\* The keypath lists of the examples of section 8.
ExampleKeypathLists == {<<"a.b">>, <<"a.c">>, <<"a.b", "a.c">>, <<"items.x">>}

\* The header-name lists: names of the transcript's header lines, a name it
\* does not have ("cookie"), and a name listed twice.
HeaderNameLists ==
    {<<"host">>, <<"cookie">>, <<"host", "accept">>, <<"host", "host">>,
     <<"cookie", "host">>}

\* A query passes up to MaxKeypaths keypaths and no header name, or a list of
\* header names with at most one keypath.
Queries ==
    {[keypaths |-> kp, headers |-> <<>>] :
        kp \in SeqsUpTo(KeypathPool, MaxKeypaths) \cup ExampleKeypathLists}
    \cup {[keypaths |-> kp, headers |-> hs] :
            kp \in {<<>>, <<"a">>}, hs \in HeaderNameLists}

(***************************************************************************)
(* The state machine.                                                      *)
(***************************************************************************)
None == [status |-> "None"]

\* No run of the prover service.
NoRun ==
    /\ request = None
    /\ response = None
    /\ step = "idle"
    /\ recv_ranges = <<>>
    /\ sent_ranges = <<>>
    /\ commits = [recv |-> <<>>, sent |-> <<>>]
    /\ reveals = [recv |-> <<>>, sent |-> <<>>]
    /\ events = <<>>
    /\ outcome = None

\* The build profiles a call can run under: the one observed, or either.
Profiles == IF overflow_checks = "unobserved" THEN {"on", "off"} ELSE {overflow_checks}

Init ==
    /\ msg \in {"Request", "Response"}
    /\ \E body \in Docs :
          /\ source = TranscriptText(msg, HeaderLines, body)
          /\ pairs = TranscriptPairs(msg, HeaderLines, body)
    /\ overflow_checks = "unobserved"
    /\ container = None
    /\ query = None
    /\ ranges = None
    /\ prev_ranges = None
    /\ pc = "parsed"
    /\ NoRun

\* Request::try_from(pairs)
TryFromRequest ==
    /\ pc = "parsed"
    /\ msg = "Request"
    /\ container' = RequestTryFrom(source, pairs)
    /\ pc' = "built"
    /\ UNCHANGED <<msg, source, pairs, overflow_checks, query, ranges, prev_ranges>>
    /\ UNCHANGED proverVars

\* Response::try_from(pairs)
TryFromResponse ==
    /\ pc = "parsed"
    /\ msg = "Response"
    /\ container' = ResponseTryFrom(source, pairs)
    /\ pc' = "built"
    /\ UNCHANGED <<msg, source, pairs, overflow_checks, query, ranges, prev_ranges>>
    /\ UNCHANGED proverVars

\* container.get_all_ranges_for_keypaths(keypaths, headers): a first call
\* with any query, then the same call once more.
GetAllRangesForKeypaths ==
    /\ pc \in {"built", "searched"}
    /\ container.status = "Ok"
    /\ \E q \in Queries, order \in IterationOrders(container), checks \in Profiles :
          /\ pc = "searched" => q = query
          /\ query' = q
          /\ ranges' = get_all_ranges_for_keypaths(container, q.keypaths, q.headers,
                                                    order, checks)
          /\ overflow_checks' =
                IF Overflowed(Pushes(container, q.keypaths, q.headers, order))
                THEN checks ELSE overflow_checks
    /\ prev_ranges' = ranges
    /\ pc' = IF pc = "built" THEN "searched" ELSE "repeated"
    /\ UNCHANGED <<msg, source, pairs, container>>
    /\ UNCHANGED proverVars

Next == TryFromRequest \/ TryFromResponse \/ GetAllRangesForKeypaths

Spec == Init /\ [][Next]_vars

\* The same operations on the builder's inputs.
BuildInit ==
    /\ msg \in {"Request", "Response"}
    /\ \E input \in BuildInputs(msg) :
          /\ source = TranscriptText(msg, HeaderLines, input.body)
          /\ pairs = input.pairs
    /\ overflow_checks = "unobserved"
    /\ container = None
    /\ query = None
    /\ ranges = None
    /\ prev_ranges = None
    /\ pc = "parsed"
    /\ NoRun

BuildSpec == BuildInit /\ [][Next]_vars

(***************************************************************************)
(* Notions the properties are stated with.                                 *)
(***************************************************************************)
RECURSIVE SetToSeq(_)
SetToSeq(S) ==
    IF S = {} THEN <<>>
    ELSE LET x == CHOOSE y \in S : TRUE IN <<x>> \o SetToSeq(S \ {x})

\* Every object entry of the value v, entries of array elements once per
\* element: its key, its value, the keys from the root down to it, and
\* whether it lies inside an array.
RECURSIVE EntriesOf(_, _, _)
EntriesOf(v, path, in_array) ==
    CASE v.kind = "Object" ->
            LET keys == SetToSeq(DOMAIN v.value)
            IN  Flatten([i \in DOMAIN keys |->
                    <<[key |-> keys[i], value |-> v.value[keys[i]],
                       path |-> Append(path, keys[i]), in_array |-> in_array]>>
                    \o EntriesOf(v.value[keys[i]], Append(path, keys[i]), in_array)])
      [] v.kind = "Array" ->
            Flatten([i \in DOMAIN v.value |-> EntriesOf(v.value[i], path, TRUE)])
      [] OTHER -> <<>>

Called == pc \in {"searched", "repeated"}
Returned == Called /\ ranges.status = "Ok"

ContentEntries == EntriesOf(get_content(container)[1], <<>>, FALSE)

DottedPath(e) == Join(e.path, ".")
IsRequested(e) == DottedPath(e) \in Range(query.keypaths)
MatchedEntries == SelectSeq(ContentEntries, IsRequested)

\* [child.range.start - (key length + 3), child.range.end) in usize arithmetic.
ExpectedRange(e) ==
    <<(get_range(e.value)[1] - (Len(e.key) + 3)) % UsizeModulus, get_range(e.value)[2]>>
ExpectedRanges(es) == [i \in DOMAIN es |-> ExpectedRange(es[i])]

\* The ranges of a result that are neither a header's nor an additional one.
HeaderRangeSet == {get_headers(container)[k].range : k \in DOMAIN get_headers(container)}
IsContentRange(r) == r \notin HeaderRangeSet \cup Range(get_additional_ranges(container))
ContentRanges == SelectSeq(ranges.ranges, IsContentRange)

Count(seq, x) == Cardinality({i \in DOMAIN seq : seq[i] = x})

IsValidRange(r) == 0 <= r[1] /\ r[1] <= r[2] /\ r[2] <= Len(source)

\* The body's object entries as the grammar saw them: each pair node with the
\* keys from the root down to it.
RECURSIVE PairNodesOf(_, _)
PairNodesOf(node, path) ==
    CASE node.rule = "object" ->
            Flatten([i \in DOMAIN node.inner |->
                LET key == as_str(source, node.inner[i].inner[1].inner[1])
                IN  <<[pair |-> node.inner[i], key |-> key, path |-> Append(path, key)]>>
                    \o PairNodesOf(node.inner[i].inner[2], Append(path, key))])
      [] node.rule = "array" ->
            Flatten([i \in DOMAIN node.inner |-> PairNodesOf(node.inner[i], path)])
      [] OTHER -> <<>>
IsBody(node) == node.rule \in {"object", "array"}
BodyPairNodes == PairNodesOf(SelectSeq(pairs, IsBody)[1], <<>>)
MatchedPairNodes == SelectSeq(BodyPairNodes, IsRequested)

\* "key":value with nothing in between.
KeyValueText(pn) == "\"" \o pn.key \o "\":" \o as_str(source, pn.pair.inner[2])
IsCompact == \A i \in DOMAIN BodyPairNodes :
                as_str(source, BodyPairNodes[i].pair) = KeyValueText(BodyPairNodes[i])

BodyOf(d) == source = TranscriptText(msg, HeaderLines, d)

(***************************************************************************)
(* The properties.                                                         *)
(***************************************************************************)

\* C1: in every result returned, the content ranges are exactly the ranges
\* [child.range.start - (key length + 3), child.range.end), computed in
\* usize, of the object entries whose dot-joined path is a requested keypath.
C1_RangeOfMatchedEntry ==
    Returned => Range(ContentRanges) = Range(ExpectedRanges(MatchedEntries))

\* A matched entry with a two-byte key and a value that has a range.
C1_Witness ==
    /\ Returned
    /\ \E i \in DOMAIN MatchedEntries :
          /\ Len(MatchedEntries[i].key) = 2
          /\ MatchedEntries[i].value.kind = "String"
          /\ ExpectedRange(MatchedEntries[i]) \in Range(ContentRanges)

\* C2: for a compact source, slicing the source by the content ranges
\* returned yields exactly the texts "key":value of the matched entries.
C2_SliceIsKeyValueText ==
    (Returned /\ IsCompact) =>
        /\ \A i \in DOMAIN ContentRanges :
              /\ IsValidRange(ContentRanges[i])
              /\ \E j \in DOMAIN MatchedPairNodes :
                    Slice(source, ContentRanges[i][1], ContentRanges[i][2])
                        = KeyValueText(MatchedPairNodes[j])
        /\ \A j \in DOMAIN MatchedPairNodes : \E i \in DOMAIN ContentRanges :
              Slice(source, ContentRanges[i][1], ContentRanges[i][2])
                  = KeyValueText(MatchedPairNodes[j])

\* C3: no over-disclosure: the content ranges returned correspond one to one
\* to the entries whose dotted path is in the keypath list, so there are as
\* many of them as matching entries, duplicates in the list notwithstanding.
C3_NoOverDisclosure ==
    Returned =>
        /\ Len(ContentRanges) = Len(MatchedEntries)
        /\ SeqToBag(ContentRanges) = SeqToBag(ExpectedRanges(MatchedEntries))

\* A keypath listed twice, an entry it matches and an entry it does not.
C3_Witness ==
    /\ Returned
    /\ \E i, j \in DOMAIN query.keypaths : i # j /\ query.keypaths[i] = query.keypaths[j]
    /\ Len(MatchedEntries) >= 1
    /\ Len(MatchedEntries) < Len(ContentEntries)
    /\ Len(ContentRanges) = Len(MatchedEntries)

\* C4: a header's range is in the result exactly once if its name is among
\* the requested header names, and not at all otherwise.
C4_HeaderSelection ==
    Returned =>
        \A name \in DOMAIN get_headers(container) :
            Count(ranges.ranges, get_headers(container)[name].range)
                = IF name \in Range(query.headers) THEN 1 ELSE 0

\* [host] against the headers {host, accept}: the host line's range only.
C4_Witness ==
    /\ Returned
    /\ query.headers = <<"host">>
    /\ DOMAIN get_headers(container) = {"host", "accept"}
    /\ \E i \in DOMAIN ranges.ranges :
          Slice(source, ranges.ranges[i][1], ranges.ranges[i][2]) = "host: example.com"
    /\ Count(ranges.ranges, get_headers(container)["accept"].range) = 0

\* The unconditional ranges of the parsed message: the span of a Request's
\* request line, nothing for a Response.
IsRequestLine(node) == node.rule = "request_line"
UnconditionalRanges ==
    IF msg = "Request"
    THEN LET line == SelectSeq(pairs, IsRequestLine)[1] IN <<<<line.start, line.end>>>>
    ELSE <<>>

\* C5: every result begins with the unconditional ranges, and is nothing but
\* them when no keypath and no header name is requested.
C5_AdditionalRangesFirst ==
    Returned =>
        /\ Len(ranges.ranges) >= Len(UnconditionalRanges)
        /\ SubSeq(ranges.ranges, 1, Len(UnconditionalRanges)) = UnconditionalRanges
        /\ (query.keypaths = <<>> /\ query.headers = <<>>) =>
                ranges.ranges = UnconditionalRanges

\* A Request asked for nothing returns its request line.
C5_Witness ==
    /\ Returned
    /\ msg = "Request"
    /\ query.keypaths = <<>> /\ query.headers = <<>>
    /\ Len(ranges.ranges) = 1
    /\ Slice(source, ranges.ranges[1][1], ranges.ranges[1][2]) = RequestLineText

InArray(e) == e.in_array

\* C6: entries of array elements, at any depth, are matched by their path of
\* object keys alone and each contributes its range; items.x on the example
\* yields the two ranges of the two elements' x entries.
C6_ArrayFanOut ==
    Returned =>
        /\ SeqToBag(ExpectedRanges(SelectSeq(MatchedEntries, InArray)))
              \sqsubseteq SeqToBag(ContentRanges)
        /\ (BodyOf(ExampleItems) /\ query.keypaths = <<"items.x">>) =>
              /\ Len(ContentRanges) = 2
              /\ {Slice(source, ContentRanges[i][1], ContentRanges[i][2]) :
                      i \in DOMAIN ContentRanges} = {"\"x\":1", "\"x\":2"}

C6_Witness ==
    /\ Returned
    /\ BodyOf(ExampleItems)
    /\ query.keypaths = <<"items.x">>
    /\ Len(ContentRanges) = 2

\* e is an entry of the object that is d's value.
IsChildEntry(d, e) ==
    /\ Len(e.path) = Len(d.path) + 1
    /\ SubSeq(e.path, 1, Len(d.path)) = d.path
    /\ d.value.kind = "Object"
    /\ e.key \in DOMAIN d.value.value
    /\ d.value.value[e.key] = e.value

\* C7: the walk goes into a matched entry's value: when p and p.q are both
\* requested and exist, both ranges are returned and the range for p.q lies
\* inside the range for p.
C7_NestedMatchInside ==
    Returned =>
        \A i, j \in DOMAIN MatchedEntries :
            IsChildEntry(MatchedEntries[i], MatchedEntries[j]) =>
                LET outer == ExpectedRange(MatchedEntries[i])
                    inner == ExpectedRange(MatchedEntries[j])
                IN  /\ outer \in Range(ranges.ranges)
                    /\ inner \in Range(ranges.ranges)
                    /\ outer[1] <= inner[1] /\ inner[2] <= outer[2]

\* An object-valued entry and an entry of that object, both requested, both
\* ranges returned.
C7_Witness ==
    /\ Returned
    /\ \E i, j \in DOMAIN MatchedEntries :
          /\ IsChildEntry(MatchedEntries[i], MatchedEntries[j])
          /\ MatchedEntries[j].value.kind # "Null"
          /\ ExpectedRange(MatchedEntries[i]) \in Range(ranges.ranges)
          /\ ExpectedRange(MatchedEntries[j]) \in Range(ranges.ranges)
          /\ ExpectedRange(MatchedEntries[i])[1] < ExpectedRange(MatchedEntries[j])[1]

\* The names of the query that occur in the container.
IsPresentKeypath(k) == \E i \in DOMAIN ContentEntries : DottedPath(ContentEntries[i]) = k
IsPresentHeader(h) == h \in DOMAIN get_headers(container)
PresentKeypaths == SelectSeq(query.keypaths, IsPresentKeypath)
PresentHeaders == SelectSeq(query.headers, IsPresentHeader)

\* C8: names that occur nowhere contribute nothing and cause no panic: the
\* call ends as the call without them does, with the same ranges.
C8_AbsentNamesContributeNothing ==
    Called =>
        \A order \in IterationOrders(container) :
            LET without == get_all_ranges_for_keypaths(
                               container, PresentKeypaths, PresentHeaders, order,
                               overflow_checks)
            IN  /\ without.status = ranges.status
                /\ SeqToBag(without.ranges) = SeqToBag(ranges.ranges)

\* A query with an absent keypath before a present one, and a range for the
\* present one.
C8_Witness ==
    /\ Returned
    /\ Len(query.keypaths) = 2
    /\ ~IsPresentKeypath(query.keypaths[1])
    /\ IsPresentKeypath(query.keypaths[2])
    /\ Len(ContentRanges) >= 1

\* C9: the same call on the same container ends the same way and returns the
\* same ranges as a multiset, whatever the iteration orders.
C9_Idempotent ==
    pc = "repeated" =>
        /\ ranges.status = prev_ranges.status
        /\ SeqToBag(ranges.ranges) = SeqToBag(prev_ranges.ranges)

\* Two calls that iterated in different orders.
C9_Witness ==
    /\ pc = "repeated"
    /\ Returned
    /\ ranges.ranges # prev_ranges.ranges
    /\ Len(ContentRanges) >= 2

\* C10: every call returns, and every range returned is a valid interval
\* into the source: 0 <= start <= end <= length of the source.
C10_RangesValid ==
    Called =>
        /\ ranges.status = "Ok"
        /\ \A i \in DOMAIN ranges.ranges : IsValidRange(ranges.ranges[i])

(***************************************************************************)
(* Notions the properties of the tree builder are stated with.             *)
(***************************************************************************)
\* try_from has just returned (the later operations leave the container as
\* it is).
Built == pc = "built"
BuiltOk == Built /\ container.status = "Ok"

\* The content of the container built, and the body's parse tree it was
\* built from.
Content == get_content(container)[1]
BodyNode == LET bodies == SelectSeq(pairs, IsBody) IN bodies[Len(bodies)]

\* The children of a built Array or Object, in some order.
ChildrenOf(v) ==
    CASE v.kind = "Object" -> [i \in 1..Cardinality(DOMAIN v.value) |->
                                  v.value[SetToSeq(DOMAIN v.value)[i]]]
      [] v.kind = "Array" -> v.value
      [] OTHER -> <<>>

\* Every non-Null child's range lies within its parent's, all the way down.
RECURSIVE Contained(_)
Contained(p) ==
    \A i \in DOMAIN ChildrenOf(p) :
        LET v == ChildrenOf(p)[i]
        IN  /\ v.kind # "Null" => (p.range[1] <= v.range[1] /\ v.range[2] <= p.range[2])
            /\ Contained(v)

\* C11: containment: in every tree built, the range of each non-Null
\* element of an Array and value of an Object entry lies within the range
\* of its parent.
C11_Containment == BuiltOk => Contained(Content)

\* A tree of three levels: a child that is itself a parent of a non-Null
\* value, strictly inside the root.
C11_Witness ==
    /\ BuiltOk
    /\ \E i \in DOMAIN ChildrenOf(Content) :
          LET v == ChildrenOf(Content)[i]
          IN  /\ v.kind \in {"Object", "Array"}
              /\ Content.range[1] < v.range[1]
              /\ \E j \in DOMAIN ChildrenOf(v) :
                    /\ ChildrenOf(v)[j].kind # "Null"
                    /\ v.range[1] < ChildrenOf(v)[j].range[1]
                    /\ ChildrenOf(v)[j].range[2] < v.range[2]

\* The grammar applied to a text on its own, as one value rule: the parse
\* tree of the value of that kind whose serialisation is the text, if there
\* is one (a sequence of at most one node).
SubValues(d) == {d} \cup Range(d.items) \cup {d.entries[i][2] : i \in DOMAIN d.entries}
ValuePool == UNION {SubValues(d) : d \in UNION {SubValues(doc) : doc \in Docs}}
GrammarParse(rule, text) ==
    LET hits == {d \in ValuePool : d.k = rule /\ Text(d) = text}
    IN  IF hits = {} THEN <<>> ELSE <<Node(CHOOSE d \in hits : TRUE, 0)>>

\* The grammar rule of a RangedValue's kind.
RuleOfKind(kind) ==
    CASE kind = "Object" -> "object"
      [] kind = "Array" -> "array"
      [] kind = "String" -> "string"
      [] kind = "Number" -> "number"
      [] kind = "Bool" -> "boolean"
      [] kind = "Null" -> "null"

\* Equal kinds, values, elements and entries; the ranges, offsets into two
\* different texts, are not compared.
RECURSIVE StructurallyEqual(_, _)
StructurallyEqual(v, w) ==
    /\ v.kind = w.kind
    /\ CASE v.kind = "Object" ->
                /\ DOMAIN v.value = DOMAIN w.value
                /\ \A k \in DOMAIN v.value : StructurallyEqual(v.value[k], w.value[k])
         [] v.kind = "Array" ->
                /\ Len(v.value) = Len(w.value)
                /\ \A i \in DOMAIN v.value : StructurallyEqual(v.value[i], w.value[i])
         [] v.kind = "Null" -> TRUE
         [] OTHER -> v._value = w._value

\* C12: round trip: the source sliced by the range returned for a matched
\* entry, parsed on its own as a value of the kind of the entry's value and
\* built by parse_value, is structurally equal to the entry's value.
C12_RoundTrip ==
    Returned =>
        \A i \in DOMAIN MatchedEntries :
            LET e == MatchedEntries[i]
                r == ExpectedRange(e)
                slice == Slice(source, r[1], r[2])
                parsed == GrammarParse(RuleOfKind(e.value.kind), slice)
            IN  /\ r \in Range(ranges.ranges)
                /\ IsValidRange(r)
                /\ parsed # <<>>
                /\ StructurallyEqual(parse_value(msg, slice, parsed[1]), e.value)

\* The header pairs among the top-level pairs, and those parse_header
\* rejects.
IsHeader(node) == node.rule = "header"
HeaderPairs == SelectSeq(pairs, IsHeader)
LacksKeyOrValue(node) == Len(node.inner) < 2
HeaderFails == \E i \in DOMAIN HeaderPairs : LacksKeyOrValue(HeaderPairs[i])

\* A parse tree handed to parse_value breaks the builder's contract: it is,
\* or holds where the traversal gets to, a node classified Other or an
\* object entry without key node, key inner token or value node.
RECURSIVE BreaksContract(_, _)
BreaksContract(R, node) ==
    LET kind == RuleTypeOf(R, node.rule)
        EntryBreaks(e) ==
            \/ Len(e.inner) < 1
            \/ e.inner[1].inner = <<>>
            \/ Len(e.inner) < 2
            \/ BreaksContract(R, e.inner[2])
    IN  CASE kind = "Other" -> TRUE
          [] kind = "Object" -> \E i \in DOMAIN node.inner : EntryBreaks(node.inner[i])
          [] kind = "Array" -> \E i \in DOMAIN node.inner : BreaksContract(R, node.inner[i])
          [] OTHER -> FALSE

\* C13: a node classified Other handed to parse_value, and an object entry
\* without its key node, its key's inner token or its value node, end the
\* construction with a panic, not with a string error; no container comes
\* out of it and no range list is ever computed.
C13_HardFailure ==
    (Built /\ ~HeaderFails /\ BreaksContract(msg, BodyNode)) =>
        /\ container.status = "Panic"
        /\ DOMAIN container = {"status", "error"}
        /\ ranges = None

\* A node of a structural kind among the values, and the panic of the
\* unreachable arm.
C13_Witness ==
    /\ Built
    /\ BreaksContract(msg, BodyNode)
    /\ container.status = "Panic"
    /\ container.error = "Unexpected rule in parse_value"

\* The text with every literal that does not parse replaced by a literal of
\* the same length that parses to the type's default: "-" by "0" and "False"
\* by "false" (no other "-" or "F" occurs in the transcripts).
RECURSIVE Repaired(_)
Repaired(text) ==
    IF text = "" THEN ""
    ELSE LET c == SubSeq(text, 1, 1)
         IN  (CASE c = "-" -> "0" [] c = "F" -> "f" [] OTHER -> c)
             \o Repaired(SubSeq(text, 2, Len(text)))

\* The values of a built tree: the value itself and all below it.
RECURSIVE ValuesIn(_)
ValuesIn(v) ==
    <<v>> \o Flatten([i \in DOMAIN ChildrenOf(v) |-> ValuesIn(ChildrenOf(v)[i])])

\* The nodes of a parse tree.
RECURSIVE NodesIn(_)
NodesIn(node) ==
    <<node>> \o Flatten([i \in DOMAIN node.inner |-> NodesIn(node.inner[i])])

\* The source text a non-Null value's range covers.
TextOf(v) == Slice(source, v.range[1], v.range[2])

IsCoerced(v) ==
    \/ v.kind = "Number" /\ TextOf(v) \notin DOMAIN F64Literals
    \/ v.kind = "Bool" /\ TextOf(v) \notin {"true", "false"}

TryFrom(m, src, ps) ==
    IF m = "Request" THEN RequestTryFrom(src, ps) ELSE ResponseTryFrom(src, ps)

\* C14: soft coercion: a Number or Boolean node whose text does not parse
\* becomes a Number or Bool with the node's span as range and the default
\* value (0, false); the construction goes on, and the container is the one
\* built had the literal been one that parses to that default.
C14_SoftCoercion ==
    Built =>
        /\ (~HeaderFails /\ ~BreaksContract(msg, BodyNode)) => container.status = "Ok"
        /\ container = TryFrom(msg, Repaired(source), pairs)
        /\ container.status = "Ok" =>
              \A i \in DOMAIN ValuesIn(Content) :
                  LET v == ValuesIn(Content)[i]
                  IN  IsCoerced(v) =>
                        /\ v._value = (IF v.kind = "Number" THEN 0 ELSE FALSE)
                        /\ \E j \in DOMAIN NodesIn(BodyNode) :
                              LET node == NodesIn(BodyNode)[j]
                              IN  /\ node.rule = RuleOfKind(v.kind)
                                  /\ v.range = <<node.start, node.end>>

\* A number that does not parse, built as 0 in a tree of at least three
\* values.
C14_Witness ==
    /\ BuiltOk
    /\ Len(ValuesIn(Content)) >= 3
    /\ \E i \in DOMAIN ValuesIn(Content) :
          /\ IsCoerced(ValuesIn(Content)[i])
          /\ ValuesIn(Content)[i]._value \in {0}

\* The first header pair parse_header rejects.
FirstFailingHeader ==
    HeaderPairs[CHOOSE i \in DOMAIN HeaderPairs :
                    /\ LacksKeyOrValue(HeaderPairs[i])
                    /\ \A j \in DOMAIN HeaderPairs : LacksKeyOrValue(HeaderPairs[j]) => i <= j]

\* C15: a header node with fewer than two children makes parse_header return
\* an error (missing key without a child, missing value with one), and
\* try_from returns that error: no container, whatever the other headers and
\* the body are, and no panic.
C15_HeaderErrorPropagates ==
    (Built /\ HeaderFails) =>
        /\ container.status = "Err"
        /\ container.error = (IF FirstFailingHeader.inner = <<>>
                              THEN "Missing key in header"
                              ELSE "Missing value in header")
        /\ DOMAIN container = {"status", "error"}
        /\ ranges = None

\* A header with its name and no value, between a well-formed header and a
\* well-formed body.
C15_Witness ==
    /\ Built
    /\ container.status = "Err"
    /\ container.error = "Missing value in header"
    /\ Len(HeaderPairs) = 2
    /\ Len(HeaderPairs[1].inner) = 2
    /\ Len(HeaderPairs[2].inner) = 1
    /\ ~BreaksContract(msg, BodyNode)

\* C16: a header node with at least two children gives the first child's
\* text as key and a RangedHeader whose range is the span of the whole
\* header node and whose value is the second child's text.
C16_HeaderRange ==
    BuiltOk =>
        /\ DOMAIN get_headers(container) =
              {as_str(source, HeaderPairs[i].inner[1]) : i \in DOMAIN HeaderPairs}
        /\ \A i \in DOMAIN HeaderPairs :
              LET node == HeaderPairs[i]
                  key == as_str(source, node.inner[1])
                  last == \A j \in DOMAIN HeaderPairs :
                              as_str(source, HeaderPairs[j].inner[1]) = key => j <= i
              IN  last =>
                    /\ get_headers(container)[key].range = <<node.start, node.end>>
                    /\ get_headers(container)[key]._value = as_str(source, node.inner[2])
                    /\ Slice(source, node.start, node.end)
                          = key \o ": " \o get_headers(container)[key]._value

\* A header with three children, built with the span of the whole line.
C16_Witness ==
    /\ BuiltOk
    /\ \E i \in DOMAIN HeaderPairs :
          /\ Len(HeaderPairs[i].inner) = 3
          /\ get_headers(container)[as_str(source, HeaderPairs[i].inner[1])].range
                = <<HeaderPairs[i].start, HeaderPairs[i].end>>
          /\ HeaderPairs[i].start < HeaderPairs[i].inner[2].start

\* The key of an object entry's node, the keys of an object node's entries,
\* and the last entry of an object node with a given key.
EntryKey(entry) == as_str(source, entry.inner[1].inner[1])
EntryKeys(node) == {EntryKey(node.inner[i]) : i \in DOMAIN node.inner}
LastEntry(node, key) ==
    node.inner[CHOOSE i \in DOMAIN node.inner :
                  /\ EntryKey(node.inner[i]) = key
                  /\ \A j \in DOMAIN node.inner : EntryKey(node.inner[j]) = key => j <= i]
HasRepeatedKey(node) ==
    \E i, j \in DOMAIN node.inner : i < j /\ EntryKey(node.inner[i]) = EntryKey(node.inner[j])

\* A built value next to the node it stands for: the root with the body
\* node, an Object's value under a key with the value node of the last entry
\* with that key, an Array's i-th element with the i-th child.
RECURSIVE Corresponding(_, _)
Corresponding(node, v) ==
    <<[node |-> node, value |-> v]>>
    \o CASE v.kind = "Object" /\ node.rule = "object" ->
                LET keys == SetToSeq(DOMAIN v.value \cap EntryKeys(node))
                IN  Flatten([i \in DOMAIN keys |->
                        Corresponding(LastEntry(node, keys[i]).inner[2], v.value[keys[i]])])
         [] v.kind = "Array" /\ node.rule = "array" ->
                Flatten([i \in DOMAIN v.value \cap DOMAIN node.inner |->
                    Corresponding(node.inner[i], v.value[i])])
         [] OTHER -> <<>>

\* The value is of the node's kind and, unless Null, has the node's span as
\* range.
BuiltFrom(node, v) ==
    /\ node.rule = RuleOfKind(v.kind)
    /\ v.kind # "Null" => v.range = <<node.start, node.end>>

\* The range of the entry key: value-node in usize arithmetic (a null node's
\* value has the range 0..0).
EntryRangeOf(key, node) ==
    LET range == IF node.rule = "null" THEN <<0, 0>> ELSE <<node.start, node.end>>
    IN  <<(range[1] - (Len(key) + 3)) % UsizeModulus, range[2]>>

\* C17: an Object node whose entries repeat a key is built, and holds under
\* each key the value of the last entry with that key; a keypath naming a
\* repeated key of the body yields exactly one range, that of the last
\* entry.
C17_LastDuplicateWins ==
    /\ (Built /\ ~HeaderFails /\ ~BreaksContract(msg, BodyNode)) => container.status = "Ok"
    /\ BuiltOk =>
          \A i \in DOMAIN Corresponding(BodyNode, Content) :
              LET c == Corresponding(BodyNode, Content)[i]
              IN  c.node.rule = "object" =>
                    /\ c.value.kind = "Object"
                    /\ DOMAIN c.value.value = EntryKeys(c.node)
                    /\ \A key \in EntryKeys(c.node) :
                          BuiltFrom(LastEntry(c.node, key).inner[2], c.value.value[key])
    /\ (Returned /\ BodyNode.rule = "object") =>
          \A key \in EntryKeys(BodyNode) :
              Range(query.keypaths) = {key} =>
                  ContentRanges = <<EntryRangeOf(key, LastEntry(BodyNode, key).inner[2])>>

\* A body that says "a" twice with values of different spans, searched for
\* "a": one range, the last entry's.
C17_Witness ==
    /\ Returned
    /\ BodyNode.rule = "object"
    /\ HasRepeatedKey(BodyNode)
    /\ Range(query.keypaths) = {"a"}
    /\ Len(BodyNode.inner) = 2
    /\ BodyNode.inner[1].inner[2].rule # BodyNode.inner[2].inner[2].rule
    /\ ContentRanges = <<<<BodyNode.inner[2].start, BodyNode.inner[2].end>>>>

\* C18: an Array node is built as an Array with the node's span as range and
\* one element per child, in the children's order: element i is
\* parse_value of child i.
C18_ArrayInOrder ==
    BuiltOk =>
        \A i \in DOMAIN Corresponding(BodyNode, Content) :
            LET c == Corresponding(BodyNode, Content)[i]
            IN  c.node.rule = "array" =>
                  /\ c.value.kind = "Array"
                  /\ c.value.range = <<c.node.start, c.node.end>>
                  /\ Len(c.value.value) = Len(c.node.inner)
                  /\ \A j \in DOMAIN c.node.inner :
                        /\ BuiltFrom(c.node.inner[j], c.value.value[j])
                        /\ c.value.value[j] = parse_value(msg, source, c.node.inner[j])

\* An array of two elements of different kinds, the first a Null, inside an
\* object or at the root.
C18_Witness ==
    /\ BuiltOk
    /\ \E i \in DOMAIN Corresponding(BodyNode, Content) :
          LET c == Corresponding(BodyNode, Content)[i]
          IN  /\ c.node.rule = "array"
              /\ Len(c.value.value) = 2
              /\ c.value.value[1].kind # c.value.value[2].kind
              /\ c.value.value[2].kind # "Null"
              /\ c.value.value[2].range[1] > c.node.inner[1].end

\* C19: a String node is built as a String whose range is the node's span,
\* both quotes included, and whose value is the text of the node's first
\* inner token, or the empty string without one; the range of a matched
\* string-valued entry ends after the closing quote.
C19_StringRange ==
    /\ BuiltOk =>
          \A i \in DOMAIN Corresponding(BodyNode, Content) :
              LET c == Corresponding(BodyNode, Content)[i]
              IN  c.node.rule = "string" =>
                    /\ c.value.kind = "String"
                    /\ c.value.range = <<c.node.start, c.node.end>>
                    /\ TextOf(c.value) = "\"" \o c.value._value \o "\""
                    /\ c.value._value = (IF c.node.inner = <<>> THEN ""
                                         ELSE as_str(source, c.node.inner[1]))
    /\ Returned =>
          \A i \in DOMAIN MatchedEntries :
              LET e == MatchedEntries[i]
              IN  e.value.kind = "String" =>
                    \E j \in DOMAIN ContentRanges :
                        /\ ContentRanges[j][1] = e.value.range[1] - (Len(e.key) + 3)
                        /\ ContentRanges[j][2] = e.value.range[2]
                        /\ Slice(source, ContentRanges[j][2] - 1, ContentRanges[j][2]) = "\""
                        /\ Slice(source, ContentRanges[j][1], ContentRanges[j][2])
                              = "\"" \o e.key \o "\":\"" \o e.value._value \o "\""

\* A matched entry whose value is the empty string, built from a String
\* node without inner token, next to a String with an inner token.
C19_Witness ==
    /\ Returned
    /\ \E i \in DOMAIN MatchedEntries :
          /\ MatchedEntries[i].value.kind = "String"
          /\ MatchedEntries[i].value._value = ""
          /\ MatchedEntries[i].value.range[2] = MatchedEntries[i].value.range[1] + 2
          /\ ContentRanges = <<<<MatchedEntries[i].value.range[1] - 4,
                                 MatchedEntries[i].value.range[2]>>>>
    /\ \E i \in DOMAIN ValuesIn(Content) :
          /\ ValuesIn(Content)[i].kind = "String"
          /\ ValuesIn(Content)[i]._value = "s"

\* The seven categories, and the category named like a value rule.
CommonRuleType == {"Object", "Array", "String", "Number", "Boolean", "Null", "Other"}
CategoryNamed(rule) ==
    CASE rule = "object" -> "Object"
      [] rule = "array" -> "Array"
      [] rule = "string" -> "String"
      [] rule = "number" -> "Number"
      [] rule = "boolean" -> "Boolean"
      [] rule = "null" -> "Null"
ValueRules == {"object", "array", "string", "number", "boolean", "null"}

\* The rule kinds of the nodes of the parse tree at hand.
RECURSIVE RulesIn(_)
RulesIn(node) == {node.rule} \cup UNION {RulesIn(node.inner[i]) : i \in DOMAIN node.inner}
RulesAtHand == UNION {RulesIn(pairs[i]) : i \in DOMAIN pairs}

\* C20: the classification is total for both grammars: object, array,
\* string, number, boolean and null go to the category of the same name,
\* every other rule kind to Other, and the request's and the response's
\* classifier agree on rule kinds of the same name.
C20_ClassificationTotal ==
    \A rule \in RuleKinds \cup RulesAtHand :
        /\ rule_type(rule) \in CommonRuleType
        /\ response_rule_type(rule) \in CommonRuleType
        /\ rule_type(rule) = response_rule_type(rule)
        /\ RuleTypeOf(msg, rule) = (IF rule \in ValueRules THEN CategoryNamed(rule) ELSE "Other")

\* A response whose parse tree holds a null, a string and structural nodes,
\* built into a tree with a Null.
C20_Witness ==
    /\ msg = "Response"
    /\ BuiltOk
    /\ {"null", "string", "array", "header", "EOI"} \subseteq RulesAtHand
    /\ \E i \in DOMAIN ValuesIn(Content) : ValuesIn(Content)[i].kind = "Null"

(***************************************************************************)
(* Transcripts beyond the compact, single-first-line ones: bodies          *)
(* serialised with blanks around the colon of an entry, messages without   *)
(* a body or without a first line, a first line met twice, header names    *)
(* that repeat or differ in letter case, and object keys that hold a dot.  *)
(***************************************************************************)
\* The largest number of blanks between a key's closing quote and its value.
MaxGap == 2

RECURSIVE Blanks(_)
Blanks(n) == IF n = 0 THEN "" ELSE " " \o Blanks(n - 1)

\* The serialisations of an entry: gap.before blanks before the colon and
\* gap.after blanks after it (blanks are silent in the grammar).
Gaps == {[before |-> b, after |-> a] : b \in 0..MaxGap, a \in 0..MaxGap}
NoGap == [before |-> 0, after |-> 0]
Width(gap) == gap.before + gap.after

RECURSIVE SpacedText(_, _), SpacedItemsText(_, _), SpacedEntriesText(_, _)
SpacedText(d, gap) ==
    CASE d.k = "string" -> "\"" \o d.text \o "\""
      [] d.k = "array" -> "[" \o SpacedItemsText(d.items, gap) \o "]"
      [] d.k = "object" -> "{" \o SpacedEntriesText(d.entries, gap) \o "}"
      [] OTHER -> d.text
SpacedItemsText(xs, gap) ==
    IF xs = <<>> THEN ""
    ELSE SpacedText(Head(xs), gap) \o (IF Len(xs) > 1 THEN "," ELSE "")
         \o SpacedItemsText(Tail(xs), gap)
SpacedEntriesText(es, gap) ==
    IF es = <<>> THEN ""
    ELSE "\"" \o Head(es)[1] \o "\"" \o Blanks(gap.before) \o ":" \o Blanks(gap.after)
         \o SpacedText(Head(es)[2], gap)
         \o (IF Len(es) > 1 THEN "," ELSE "") \o SpacedEntriesText(Tail(es), gap)

RECURSIVE SpacedNode(_, _, _), SpacedItemNodes(_, _, _), SpacedEntryNodes(_, _, _)
\* The pair the grammar produces for the value d serialised with gap at pos.
SpacedNode(d, pos, gap) ==
    CASE d.k = "string" -> StringNode(d.text, pos)
      [] d.k = "array" ->
            Pair("array", pos, pos + Len(SpacedText(d, gap)),
                 SpacedItemNodes(d.items, pos + 1, gap))
      [] d.k = "object" ->
            Pair("object", pos, pos + Len(SpacedText(d, gap)),
                 SpacedEntryNodes(d.entries, pos + 1, gap))
      [] OTHER -> Pair(d.k, pos, pos + Len(d.text), <<>>)
SpacedItemNodes(xs, pos, gap) ==
    IF xs = <<>> THEN <<>>
    ELSE LET n == SpacedNode(Head(xs), pos, gap)
         IN  <<n>> \o SpacedItemNodes(Tail(xs), n.end + 1, gap)
SpacedEntryNodes(es, pos, gap) ==
    IF es = <<>> THEN <<>>
    ELSE LET key == StringNode(Head(es)[1], pos)
             val == SpacedNode(Head(es)[2], key.end + 1 + Width(gap), gap)
         IN  <<Pair("pair", pos, val.end, <<key, val>>)>>
             \o SpacedEntryNodes(Tail(es), val.end + 1, gap)

\* The first line of a message and a second one of the same rule.
SecondLineText(m) == IF m = "Request" THEN "GET /q HTTP/1.1" ELSE "HTTP/1.1 404 NO"
FirstLineRule(m) == IF m = "Request" THEN "request_line" ELSE "status_line"

RECURSIVE LinesText(_)
LinesText(lines) ==
    IF lines = <<>> THEN "" ELSE Head(lines) \o CRLF \o LinesText(Tail(lines))

RECURSIVE LineNodes(_, _, _)
LineNodes(m, lines, pos) ==
    IF lines = <<>> THEN <<>>
    ELSE <<Pair(FirstLineRule(m), pos, pos + Len(Head(lines)), <<>>)>>
         \o LineNodes(m, Tail(lines), pos + Len(Head(lines)) + Len(CRLF))

\* A message of first lines, header lines, the blank line and, when body is
\* <<d>>, the body d serialised with gap.
MessageText(lines, hs, body, gap) ==
    LinesText(lines) \o HeadersText(hs) \o CRLF
    \o (IF body = <<>> THEN "" ELSE SpacedText(body[1], gap))

\* Its top-level pairs.
MessagePairs(m, lines, hs, body, gap) ==
    LET hstart == Len(LinesText(lines))
        bstart == hstart + Len(HeadersText(hs)) + Len(CRLF)
        total == Len(MessageText(lines, hs, body, gap))
    IN  LineNodes(m, lines, 0)
        \o HeaderNodes(hs, hstart)
        \o (IF body = <<>> THEN <<>> ELSE <<SpacedNode(body[1], bstart, gap)>>)
        \o <<Pair("EOI", total, total, <<>>)>>

\* Bodies whose entries are serialised with blanks.
SpacedDocs ==
    ExampleDocs
    \cup {DObj(<<<<"a", DStr("s")>>, <<"bc", DArr(<<DNum("1"), DBool("true")>>)>>>>),
          DObj(<<<<"a", DObj(<<<<"bc", DNum("1")>>>>)>>>>),
          DArr(<<DObj(<<<<"a", DNum("1")>>>>), DObj(<<<<"a", DNull>>>>)>>),
          DObj(<<<<"bc", DNull>>>>)}

\* Key "a.b" at the root next to, or instead of, key "b" under key "a".
DottedDocs ==
    {DObj(<<<<"a.b", DNum("1")>>>>),
     DObj(<<<<"a.b", DNum("1")>>, <<"a", DObj(<<<<"b", DNum("2")>>>>)>>>>),
     DObj(<<<<"a", DObj(<<<<"b.c", DStr("s")>>>>)>>>>)}

\* No body, the empty object, the empty array, bodies with entries.
ShapeBodies ==
    {<<>>, <<DObj(<<>>)>>, <<DArr(<<>>)>>, <<ExampleNested>>}
    \cup {<<d>> : d \in DottedDocs}

\* No first line, one, two.
ShapeLines(m) ==
    {<<>>, <<FirstLineText(m)>>, <<FirstLineText(m), SecondLineText(m)>>}

\* Header lines: none, distinct names, one name on two or three lines, names
\* that differ in letter case only, both at once.
ShapeHeaders ==
    {<<>>, HeaderLines,
     <<<<"host", "a.example">>, <<"host", "b.example">>>>,
     <<<<"host", "a.example">>, <<"accept", "*/*">>, <<"host", "a.example">>>>,
     <<<<"host", "x">>, <<"host", "y">>, <<"host", "z">>>>,
     <<<<"host", "x">>, <<"Host", "y">>, <<"host", "z">>>>,
     <<<<"Host", "a.example">>, <<"host", "b.example">>>>,
     <<<<"host", "a.example">>, <<"HOST", "b.example">>, <<"accept", "*/*">>>>}

EdgeInputs(m) ==
    {[source |-> MessageText(<<FirstLineText(m)>>, HeaderLines, <<d>>, gap),
      pairs |-> MessagePairs(m, <<FirstLineText(m)>>, HeaderLines, <<d>>, gap)] :
        d \in SpacedDocs, gap \in {g \in Gaps : Width(g) \in 1..MaxGap}}
    \cup {[source |-> MessageText(lines, hs, body, NoGap),
           pairs |-> MessagePairs(m, lines, hs, body, NoGap)] :
            lines \in ShapeLines(m), hs \in ShapeHeaders, body \in ShapeBodies}

\* The same operations on these transcripts.
EdgeInit ==
    /\ msg \in {"Request", "Response"}
    /\ \E input \in EdgeInputs(msg) :
          /\ source = input.source
          /\ pairs = input.pairs
    /\ overflow_checks = "unobserved"
    /\ container = None
    /\ query = None
    /\ ranges = None
    /\ prev_ranges = None
    /\ pc = "parsed"
    /\ NoRun

EdgeSpec == EdgeInit /\ [][Next]_vars

(***************************************************************************)
(* Properties of the search and of the builder on these transcripts.       *)
(***************************************************************************)
HasBody == SelectSeq(pairs, IsBody) # <<>>

\* The bytes between a key's closing quote and its value, the colon aside.
GapOf(pn) == pn.pair.inner[2].start - pn.pair.inner[1].end - 1
MatchedSpacedNodes ==
    IF HasBody THEN SelectSeq(MatchedPairNodes, LAMBDA pn : GapOf(pn) >= 1) ELSE <<>>

\* From GapOf(pn) bytes after the key's opening quote to the value's end.
ShiftedRange(pn) == <<pn.pair.start + GapOf(pn), pn.pair.inner[2].end>>
Covers(r, node) == r[1] <= node.start /\ node.end <= r[2]

\* C21: serialization coupling: when w >= 1 bytes besides the colon lie
\* between a matched entry's key and its value, the call reports no error
\* and the range produced for the entry starts w bytes after the key's
\* opening quote, so that it does not cover the whole key-value pair.
C21_SerializationCoupling ==
    (Called /\ MatchedSpacedNodes # <<>>) =>
        /\ ranges.status = "Ok"
        /\ \A j \in DOMAIN MatchedSpacedNodes :
              /\ ShiftedRange(MatchedSpacedNodes[j]) \in Range(ContentRanges)
              /\ ~Covers(ShiftedRange(MatchedSpacedNodes[j]), MatchedSpacedNodes[j].pair)
        /\ \A i \in DOMAIN ContentRanges : \E j \in DOMAIN MatchedSpacedNodes :
              ContentRanges[i] = ShiftedRange(MatchedSpacedNodes[j])

IsEmptyObject(v) == v.kind = "Object" /\ DOMAIN v.value = {}

\* C22: after Request::try_from or Response::try_from on a parse tree with
\* no top-level object or array node, get_content reports absence (None),
\* not an Object with no entries.
C22_AbsentBodyReported ==
    (BuiltOk /\ ~HasBody) =>
        \/ get_content(container) = <<>>
        \/ ~IsEmptyObject(get_content(container)[1])

RequestLines == SelectSeq(pairs, IsRequestLine)
HeaderNames == {as_str(source, HeaderPairs[i].inner[1]) : i \in DOMAIN HeaderPairs}

\* C23: Request::try_from fails with the error "Missing request line" and
\* produces no Request when the parse tree has no request_line node, headers
\* and body present or not; when it succeeds, request_line.range is the span
\* of the last request_line node, and the header map holds the header nodes'
\* names only, none of them with that span.
C23_MissingRequestLine ==
    (Built /\ msg = "Request") =>
        /\ RequestLines = <<>> =>
              container = [status |-> "Err", error |-> "Missing request line"]
        /\ container.status = "Ok" =>
              /\ RequestLines # <<>>
              /\ container.request_line.range
                    = <<RequestLines[Len(RequestLines)].start,
                        RequestLines[Len(RequestLines)].end>>
              /\ DOMAIN get_headers(container) = HeaderNames
              /\ container.request_line.range \notin HeaderRangeSet

\* Headers and a body but no request line, and the error.
C23_Witness ==
    /\ Built
    /\ msg = "Request"
    /\ RequestLines = <<>>
    /\ Len(HeaderPairs) >= 2
    /\ HasBody
    /\ container.status = "Err"
    /\ container.error = "Missing request line"

\* str::split('.'): the segments of a keypath.
RECURSIVE Segments(_)
Segments(k) ==
    LET dots == {i \in 1..Len(k) : SubSeq(k, i, i) = "."}
    IN  IF dots = {} THEN <<k>>
        ELSE LET first == CHOOSE i \in dots : \A j \in dots : i <= j
             IN  <<SubSeq(k, 1, first - 1)>> \o Segments(SubSeq(k, first + 1, Len(k)))

IsAddressed(e) == \E i \in DOMAIN query.keypaths : e.path = Segments(query.keypaths[i])

\* C24: an entry is matched by a requested keypath only if the keys on the
\* path from the body root to it are, one by one, the dot-separated segments
\* of that keypath: every content range returned is the range of an entry
\* addressed in this way, whatever the keys, a key holding a dot included.
C24_MatchBySegments ==
    Returned =>
        \A i \in DOMAIN ContentRanges : \E j \in DOMAIN ContentEntries :
            /\ ExpectedRange(ContentEntries[j]) = ContentRanges[i]
            /\ IsAddressed(ContentEntries[j])

HeaderName(node) == as_str(source, node.inner[1])
\* The header line a name's entry comes from when the last insertion wins.
IsLastOfItsName(i) ==
    \A j \in DOMAIN HeaderPairs :
        HeaderName(HeaderPairs[j]) = HeaderName(HeaderPairs[i]) => j <= i

\* C25: of the header lines that bear the same name the container keeps one
\* RangedHeader, the last line's, and a call that requests the name returns
\* that line's range once and the range of no other line: not an earlier
\* line's of the same name, not a line's whose name differs in letter case.
C25_LastHeaderLineWins ==
    /\ BuiltOk =>
          /\ DOMAIN get_headers(container) = HeaderNames
          /\ \A i \in DOMAIN HeaderPairs :
                IsLastOfItsName(i) =>
                    get_headers(container)[HeaderName(HeaderPairs[i])]
                        = RangedHeader(<<HeaderPairs[i].start, HeaderPairs[i].end>>,
                                       as_str(source, HeaderPairs[i].inner[2]))
    /\ Returned =>
          \A i \in DOMAIN HeaderPairs :
              Count(ranges.ranges, <<HeaderPairs[i].start, HeaderPairs[i].end>>)
                  = IF /\ HeaderName(HeaderPairs[i]) \in Range(query.headers)
                       /\ IsLastOfItsName(i)
                    THEN 1 ELSE 0

\* "host" on two lines with a "Host" line in between, "host" requested, and
\* the range of the last "host" line returned.
C25_Witness ==
    /\ Returned
    /\ "host" \in Range(query.headers)
    /\ "Host" \in HeaderNames
    /\ \E i, j \in DOMAIN HeaderPairs :
          /\ i < j
          /\ HeaderName(HeaderPairs[i]) = "host"
          /\ HeaderName(HeaderPairs[j]) = "host"
          /\ IsLastOfItsName(j)
          /\ <<HeaderPairs[j].start, HeaderPairs[j].end>> \in Range(ranges.ranges)

(***************************************************************************)
(* The prover service (prover.rs, utils.rs): the range lists of the sent   *)
(* and of the received transcript, committed by notarize and revealed by   *)
(* create_presentation.                                                    *)
(***************************************************************************)
\* str::find and str::rfind: Some(byte offset) as <<offset>>, None as <<>>.
Occurrences(text, pat) ==
    {i \in 0..(Len(text) - Len(pat)) : Slice(text, i, i + Len(pat)) = pat}
Find(text, pat) ==
    LET hits == Occurrences(text, pat)
    IN  IF hits = {} THEN <<>> ELSE <<CHOOSE i \in hits : \A j \in hits : i <= j>>
RFind(text, pat) ==
    LET hits == Occurrences(text, pat)
    IN  IF hits = {} THEN <<>> ELSE <<CHOOSE i \in hits : \A j \in hits : j <= i>>

\* &text[from..]
SliceFrom(text, from) == Slice(text, from, Len(text))

\* A Vec of ranges returned.
Vec(rs) == [status |-> "Ok", ranges |-> rs]
Panicked == [status |-> "Panic", ranges |-> <<>>]

\* The fallback of the received side: the fields are looked for in the text
\* between the first "{" and the last "}".
get_binance_price_ranges(text) ==
    LET json_start == Find(text, "{")
        json_end == RFind(text, "}")
    IN  IF json_start = <<>> THEN Vec(<<>>)
        ELSE IF json_end = <<>> THEN Vec(<<>>)
        ELSE IF json_start[1] > json_end[1] + 1 THEN Panicked
        ELSE LET json_content == Slice(text, json_start[1], json_end[1] + 1)
                 Field(name, terminator, extra) ==
                     LET start == Find(json_content, name)
                     IN  IF start = <<>> THEN <<>>
                         ELSE LET end == Find(SliceFrom(json_content, start[1]), terminator)
                              IN  IF end = <<>> THEN <<>>
                                  ELSE <<<<json_start[1] + start[1],
                                           json_start[1] + start[1] + end[1] + extra>>>>
             IN  Vec(Field("\"price\":\"", "\",", 1)
                     \o Field("\"mins\":", ",", 0)
                     \o Field("\"closeTime\":", "}", 0))

\* The keypaths create_presentation and notarize disclose of a response.
PriceKeypaths == <<"price", "mins", "closeTime">>

\* A call that meets no map and no subtraction.
Plain(result) == {[result |-> result, overflow |-> FALSE]}

\* A transcript is its bytes (text, with utf8 telling whether they are valid
\* UTF-8) and what the grammar makes of the text: <<pairs>>, or <<>> when the
\* text does not match.  The outcomes of a call under a build profile: one
\* for each iteration order of the maps met, each the Vec returned or the
\* panic, with whether a subtraction overflowed.
get_received_data_ranges(t, checks) ==
    IF ~t.utf8 THEN Plain(Vec(<<>>))
    ELSE IF t.parse = <<>> THEN Plain(get_binance_price_ranges(t.text))
    ELSE UNION {
            CASE response_.status = "Err" -> Plain(get_binance_price_ranges(t.text))
              [] response_.status = "Panic" -> Plain(Panicked)
              [] OTHER ->
                    {[result |-> get_all_ranges_for_keypaths(response_, PriceKeypaths,
                                                             <<>>, order, checks),
                      overflow |-> Overflowed(Pushes(response_, PriceKeypaths, <<>>,
                                                     order))] :
                        order \in IterationOrders(response_)} :
            response_ \in {ResponseTryFrom(t.text, t.parse[1])}}

\* Mutant of get_sent_data_ranges: the symbol parameter is looked for before
\* the transcript is parsed.
get_sent_data_ranges_Unparsed(t) ==
    LET symbol_start == Find(t.text, "symbol=")
    IN  IF symbol_start = <<>> THEN Vec(<<>>)
        ELSE LET symbol_end == Find(SliceFrom(t.text, symbol_start[1]), " HTTP")
             IN  IF symbol_end = <<>> THEN Vec(<<>>)
                 ELSE Vec(<<<<symbol_start[1], symbol_start[1] + symbol_end[1]>>>>)

get_sent_data_ranges(t) ==
    IF ~t.utf8 THEN Vec(<<>>)
    ELSE IF t.parse = <<>> THEN Vec(<<>>)
    ELSE LET request_ == RequestTryFrom(t.text, t.parse[1])
         IN  CASE request_.status = "Err" -> Vec(<<>>)
               [] request_.status = "Panic" -> Panicked
               [] OTHER ->
                    LET symbol_start == Find(t.text, "symbol=")
                    IN  IF symbol_start = <<>> THEN Vec(<<>>)
                        ELSE LET symbol_end ==
                                    Find(SliceFrom(t.text, symbol_start[1]), " HTTP")
                             IN  IF symbol_end = <<>> THEN Vec(<<>>)
                                 ELSE Vec(<<<<symbol_start[1],
                                             symbol_start[1] + symbol_end[1]>>>>)

(***************************************************************************)
(* The requests and the responses of the modelled runs.                    *)
(***************************************************************************)
\* A transcript the grammar of m parses.
Parsed(m, lines, hs, body) ==
    [utf8 |-> TRUE,
     text |-> MessageText(lines, hs, body, NoGap),
     parse |-> <<MessagePairs(m, lines, hs, body, NoGap)>>]
\* A transcript the grammar rejects, and bytes that are not UTF-8 (text is
\* what the bytes read as where they are ASCII).
Unparsed(text) == [utf8 |-> TRUE, text |-> text, parse |-> <<>>]
NotUtf8(text) == [utf8 |-> FALSE, text |-> text, parse |-> <<>>]

SentLine(target) == "GET " \o target \o " HTTP/1.1"

\* The sent transcripts: the symbol parameter in the request target, once,
\* twice, not at all; "symbol=" in a header only, with " HTTP" after it in
\* the same header, in the body, nowhere; transcripts that hold
\* "symbol=B HTTP" but are not UTF-8, do not match the grammar, or have a
\* parse tree that Request::try_from refuses.
SentTranscripts ==
    {Parsed("Request", <<SentLine("/p?symbol=B")>>, HeaderLines, <<>>),
     Parsed("Request", <<SentLine("/p?symbol=B&symbol=CD")>>, HeaderLines, <<>>),
     Parsed("Request", <<SentLine("/p")>>, HeaderLines, <<>>),
     Parsed("Request", <<SentLine("/p")>>, <<<<"cookie", "symbol=x">>>>, <<>>),
     Parsed("Request", <<SentLine("/p")>>,
            <<<<"cookie", "symbol=x HTTP">>, <<"host", "h">>>>, <<>>),
     Parsed("Request", <<SentLine("/p")>>, <<<<"cookie", "symbol=x">>>>,
            <<DObj(<<<<"a", DStr(" HTTP")>>>>)>>),
     NotUtf8(SentLine("/p?symbol=B") \o CRLF \o CRLF),
     Unparsed("symbol=B HTTP"),
     Parsed("Request", <<>>, <<<<"cookie", "symbol=B HTTP">>>>, <<>>)}

\* request.uri().scheme(): Some(scheme) as <<scheme>>, None as <<>>.
Schemes == {<<>>, <<"https">>, <<"http">>, <<"wss">>}

Requests == {[scheme |-> s, sent |-> t] : s \in Schemes, t \in SentTranscripts}

\* Bodies of the received transcripts: the three fields, in the order the
\* fallback expects and in another; fields missing; a field that is null; an
\* array of objects; none of the fields.
PriceDocs ==
    {DObj(<<<<"mins", DNum("2")>>, <<"price", DStr("1")>>, <<"closeTime", DNum("1")>>>>),
     DObj(<<<<"closeTime", DNum("1")>>, <<"price", DStr("1")>>>>),
     DObj(<<<<"price", DStr("1")>>>>),
     DObj(<<<<"mins", DNum("2")>>, <<"price", DNull>>>>),
     DArr(<<DObj(<<<<"price", DStr("1")>>>>), DObj(<<<<"price", DStr("2")>>>>)>>),
     DObj(<<<<"a", DNum("1")>>>>)}

\* A header node without its value: Response::try_from refuses the tree.
WithoutHeaderValue(t) ==
    [t EXCEPT !.parse = <<WithPair(t.parse[1], 2,
                                   [t.parse[1][2] EXCEPT !.inner = <<t.parse[1][2].inner[1]>>])>>]

\* The received transcripts of a 200 response: parsed ones, chunked ones the
\* grammar rejects, one whose tree is refused, bytes that are not UTF-8.
RecvTranscripts ==
    {Parsed("Response", <<StatusLineText>>, HeaderLines, <<d>>) : d \in PriceDocs}
    \cup {Parsed("Response", <<StatusLineText>>, HeaderLines, <<>>),
          Unparsed(StatusLineText \o CRLF \o CRLF
                   \o "25\r\n{\"mins\":2,\"price\":\"1\",\"closeTime\":1}\r\n0"),
          Unparsed(StatusLineText \o CRLF \o CRLF \o "} 1 {"),
          WithoutHeaderValue(Parsed("Response", <<StatusLineText>>, HeaderLines,
                                    <<DObj(<<<<"mins", DNum("2")>>, <<"price", DStr("1")>>,
                                             <<"closeTime", DNum("1")>>>>)>>)),
          NotUtf8(StatusLineText \o CRLF \o CRLF \o "{\"price\":\"1\",")}

StatusOk == 200
StatusNotFound == 404

Responses ==
    {[status |-> StatusOk, recv |-> t] : t \in RecvTranscripts}
    \cup {[status |-> StatusNotFound,
           recv |-> Parsed("Response", <<SecondLineText("Response")>>, HeaderLines,
                           <<DObj(<<<<"price", DStr("1")>>>>)>>)]}

(***************************************************************************)
(* A run of notarize_and_create_presentation, step by step.  The calls of  *)
(* the collaborators (notary client, TLS prover, commitment and proof      *)
(* builders) succeed or fail; events lists those that were made.           *)
(***************************************************************************)
Event(op, arg) == [op |-> op, arg |-> arg]
Err(error) == [status |-> "Err", error |-> error]

\* The run ends with the result or the panic r.
Ends(r) ==
    /\ outcome' = r
    /\ step' = "done"

\* Mutant of IsHttps: any scheme passes, only its absence is refused.
IsHttps_AnyScheme(scheme) == scheme # <<>>

\* request.uri().scheme().map(|s| s.as_str()) == Some("https")
IsHttps(scheme) == scheme = <<"https">>

\* notarize_and_create_presentation is called: the scheme check, then the
\* call of notarize.
NotarizeAndCreatePresentation ==
    /\ step = "idle"
    /\ IF IsHttps(request.scheme)
       THEN /\ step' = "notary"
            /\ events' = Append(events, Event("notarize", <<>>))
            /\ UNCHANGED outcome
       ELSE /\ Ends(Err("InvalidScheme"))
            /\ UNCHANGED events
    /\ UNCHANGED <<request, response, recv_ranges, sent_ranges, commits, reveals>>
    /\ UNCHANGED parserVars

\* notarize: the notary client requests a notarization (expect panics when
\* the notary cannot be reached).
RequestNotarization ==
    /\ step = "notary"
    /\ events' = Append(events, Event("request_notarization", <<>>))
    /\ \E ok \in BOOLEAN :
          IF ok THEN step' = "server" /\ UNCHANGED outcome
          ELSE Ends([status |-> "Panic", error |-> "Could not connect to notary"])
    /\ UNCHANGED <<request, response, recv_ranges, sent_ranges, commits, reveals>>
    /\ UNCHANGED parserVars

\* notarize: prover setup, TCP connection to the server, MPC-TLS connection
\* and HTTP handshake.
ConnectServer ==
    /\ step = "server"
    /\ events' = Append(events, Event("connect_server", <<>>))
    /\ \E ok \in BOOLEAN :
          IF ok THEN step' = "request" /\ UNCHANGED outcome
          ELSE Ends(Err("IoError"))
    /\ UNCHANGED <<request, response, recv_ranges, sent_ranges, commits, reveals>>
    /\ UNCHANGED parserVars

\* Mutant of StatusAccepted: every status is accepted.
StatusAccepted_Any(status) == TRUE

\* response.status() == StatusCode::OK
StatusAccepted(status) == status = StatusOk

\* notarize: the request is sent and the response received; a status other
\* than 200 ends the run, then the prover task is awaited.
SendRequest ==
    /\ step = "request"
    /\ \E r \in Responses, task_ok \in BOOLEAN :
          /\ response' = r
          /\ events' = Append(events, Event("response", <<r.status>>))
          /\ IF ~StatusAccepted(r.status) THEN Ends(Err("NotarizationFailed"))
             ELSE IF ~task_ok THEN Ends(Err("NotarizationFailed"))
             ELSE step' = "extract_recv" /\ UNCHANGED outcome
    /\ UNCHANGED <<request, recv_ranges, sent_ranges, commits, reveals>>
    /\ UNCHANGED parserVars

\* notarize: redact_and_reveal_received_data(prover)
RedactAndRevealReceivedData ==
    /\ step = "extract_recv"
    /\ \E checks \in Profiles :
          \E call \in get_received_data_ranges(response.recv, checks) :
              /\ overflow_checks' = IF call.overflow THEN checks ELSE overflow_checks
              /\ IF call.result.status = "Panic"
                 THEN /\ Ends([status |-> "Panic", error |-> "get_received_data_ranges"])
                      /\ UNCHANGED <<recv_ranges, events>>
                 ELSE /\ recv_ranges' = call.result.ranges
                      /\ events' = Append(events, Event("recv_ranges", <<>>))
                      /\ step' = "extract_sent"
                      /\ UNCHANGED outcome
    /\ UNCHANGED <<request, response, sent_ranges, commits, reveals>>
    /\ UNCHANGED <<msg, source, pairs, container, query, ranges, prev_ranges, pc>>

\* notarize: redact_and_reveal_sent_data(prover)
RedactAndRevealSentData ==
    /\ step = "extract_sent"
    /\ \E result \in {get_sent_data_ranges(request.sent)} :
          IF result.status = "Panic"
          THEN /\ Ends([status |-> "Panic", error |-> "get_sent_data_ranges"])
               /\ UNCHANGED <<sent_ranges, events>>
          ELSE /\ sent_ranges' = result.ranges
               /\ events' = Append(events, Event("sent_ranges", <<>>))
               /\ step' = "commit_recv"
               /\ UNCHANGED outcome
    /\ UNCHANGED <<request, response, recv_ranges, commits, reveals>>
    /\ UNCHANGED parserVars

\* Whether the range lies in a transcript of the text's length.
InTranscript(r, text) == 0 <= r[1] /\ r[1] <= r[2] /\ r[2] <= Len(text)

\* notarize: the loop over recv_ranges; builder.commit_recv(range) is refused
\* for a range outside the transcript and may be refused for others.
CommitRecv ==
    /\ step = "commit_recv"
    /\ IF Len(commits.recv) < Len(recv_ranges)
       THEN LET range == recv_ranges[Len(commits.recv) + 1]
            IN  /\ commits' = [commits EXCEPT !.recv = Append(@, range)]
                /\ events' = Append(events, Event("commit_recv", range))
                /\ \E ok \in {b \in BOOLEAN : b => InTranscript(range, response.recv.text)} :
                      IF ok THEN UNCHANGED <<step, outcome>>
                      ELSE Ends(Err("NotarizationFailed"))
       ELSE /\ step' = "commit_sent"
            /\ UNCHANGED <<commits, events, outcome>>
    /\ UNCHANGED <<request, response, recv_ranges, sent_ranges, reveals>>
    /\ UNCHANGED parserVars

\* notarize: the loop over sent_ranges.
CommitSent ==
    /\ step = "commit_sent"
    /\ IF Len(commits.sent) < Len(sent_ranges)
       THEN LET range == sent_ranges[Len(commits.sent) + 1]
            IN  /\ commits' = [commits EXCEPT !.sent = Append(@, range)]
                /\ events' = Append(events, Event("commit_sent", range))
                /\ \E ok \in {b \in BOOLEAN : b => InTranscript(range, request.sent.text)} :
                      IF ok THEN UNCHANGED <<step, outcome>>
                      ELSE Ends(Err("NotarizationFailed"))
       ELSE /\ step' = "attest"
            /\ UNCHANGED <<commits, events, outcome>>
    /\ UNCHANGED <<request, response, recv_ranges, sent_ranges, reveals>>
    /\ UNCHANGED parserVars

\* notarize: the commitment and the request configuration are built and
\* prover.notarize asks the notary for the attestation.
Notarize ==
    /\ step = "attest"
    /\ \E built \in BOOLEAN, ok \in BOOLEAN :
          IF ~built
          THEN Ends(Err("NotarizationFailed")) /\ UNCHANGED events
          ELSE /\ events' = Append(events, Event("prover_notarize", <<>>))
               /\ IF ok THEN step' = "present" /\ UNCHANGED outcome
                  ELSE Ends(Err("TlsnProverError"))
    /\ UNCHANGED <<request, response, recv_ranges, sent_ranges, commits, reveals>>
    /\ UNCHANGED parserVars

\* Mutant of PresentedRanges: the presentation is made of other ranges than
\* the ones of the functions notarize called.
PresentedRanges_Fallback(t, checks) ==
    IF t.utf8 THEN Plain(get_binance_price_ranges(t.text)) ELSE Plain(Vec(<<>>))

\* create_presentation: get_received_data_ranges(&secrets), on the
\* transcript the secrets hold, which is the prover's.
PresentedRanges(t, checks) == get_received_data_ranges(t, checks)

\* create_presentation is called with the attestation and the secrets: the
\* two range lists are computed anew.
CreatePresentation ==
    /\ step = "present"
    /\ \E checks \in Profiles :
          \E call \in PresentedRanges(response.recv, checks),
             sent \in {get_sent_data_ranges(request.sent)} :
              /\ overflow_checks' = IF call.overflow THEN checks ELSE overflow_checks
              /\ IF call.result.status = "Panic"
                 THEN /\ Ends([status |-> "Panic", error |-> "get_received_data_ranges"])
                      /\ UNCHANGED <<recv_ranges, sent_ranges, events>>
                 ELSE IF sent.status = "Panic"
                 THEN /\ Ends([status |-> "Panic", error |-> "get_sent_data_ranges"])
                      /\ UNCHANGED <<recv_ranges, sent_ranges, events>>
                 ELSE /\ recv_ranges' = call.result.ranges
                      /\ sent_ranges' = sent.ranges
                      /\ events' = Append(events, Event("create_presentation", <<>>))
                      /\ step' = "reveal_recv"
                      /\ UNCHANGED outcome
    /\ UNCHANGED <<request, response, commits, reveals>>
    /\ UNCHANGED <<msg, source, pairs, container, query, ranges, prev_ranges, pc>>

\* create_presentation: the loop over recv_ranges; builder.reveal_recv(range)
\* is refused for a range no commitment covers and may be refused for others.
RevealRecv ==
    /\ step = "reveal_recv"
    /\ IF Len(reveals.recv) < Len(recv_ranges)
       THEN LET range == recv_ranges[Len(reveals.recv) + 1]
            IN  /\ reveals' = [reveals EXCEPT !.recv = Append(@, range)]
                /\ events' = Append(events, Event("reveal_recv", range))
                /\ \E ok \in {b \in BOOLEAN : b => range \in Range(commits.recv)} :
                      IF ok THEN UNCHANGED <<step, outcome>>
                      ELSE Ends(Err("PresentationCreationFailed"))
       ELSE /\ step' = "reveal_sent"
            /\ UNCHANGED <<reveals, events, outcome>>
    /\ UNCHANGED <<request, response, recv_ranges, sent_ranges, commits>>
    /\ UNCHANGED parserVars

\* create_presentation: the loop over sent_ranges.
RevealSent ==
    /\ step = "reveal_sent"
    /\ IF Len(reveals.sent) < Len(sent_ranges)
       THEN LET range == sent_ranges[Len(reveals.sent) + 1]
            IN  /\ reveals' = [reveals EXCEPT !.sent = Append(@, range)]
                /\ events' = Append(events, Event("reveal_sent", range))
                /\ \E ok \in {b \in BOOLEAN : b => range \in Range(commits.sent)} :
                      IF ok THEN UNCHANGED <<step, outcome>>
                      ELSE Ends(Err("PresentationCreationFailed"))
       ELSE /\ step' = "build"
            /\ UNCHANGED <<reveals, events, outcome>>
    /\ UNCHANGED <<request, response, recv_ranges, sent_ranges, commits>>
    /\ UNCHANGED parserVars

\* create_presentation: the transcript proof and the presentation are built.
BuildPresentation ==
    /\ step = "build"
    /\ \E ok \in BOOLEAN :
          IF ok THEN Ends([status |-> "Ok", error |-> ""])
          ELSE Ends(Err("PresentationCreationFailed"))
    /\ UNCHANGED <<request, response, recv_ranges, sent_ranges, commits, reveals, events>>
    /\ UNCHANGED parserVars

ProverNext ==
    \/ NotarizeAndCreatePresentation
    \/ RequestNotarization
    \/ ConnectServer
    \/ SendRequest
    \/ RedactAndRevealReceivedData
    \/ RedactAndRevealSentData
    \/ CommitRecv
    \/ CommitSent
    \/ Notarize
    \/ CreatePresentation
    \/ RevealRecv
    \/ RevealSent
    \/ BuildPresentation

\* A request is at hand; nothing is parsed outside the run.
ProverInit ==
    /\ msg = "Response"
    /\ source = ""
    /\ pairs = <<>>
    /\ overflow_checks = "unobserved"
    /\ container = None
    /\ query = None
    /\ ranges = None
    /\ prev_ranges = None
    /\ pc = "run"
    /\ request \in Requests
    /\ response = None
    /\ step = "idle"
    /\ recv_ranges = <<>>
    /\ sent_ranges = <<>>
    /\ commits = [recv |-> <<>>, sent |-> <<>>]
    /\ reveals = [recv |-> <<>>, sent |-> <<>>]
    /\ events = <<>>
    /\ outcome = None

ProverSpec == ProverInit /\ [][ProverNext]_vars

(***************************************************************************)
(* Properties of the runs.                                                 *)
(***************************************************************************)
\* Both loops of create_presentation went through.
RevealsDone == step = "build" \/ (step = "done" /\ outcome.status = "Ok")

\* C26: commit before reveal: every range passed to reveal_recv (reveal_sent)
\* was passed to commit_recv (commit_sent) earlier in the run, and once the
\* loops of create_presentation are through, the set of ranges revealed is
\* the set of ranges committed, for the received and for the sent side.
C26_CommitBeforeReveal ==
    /\ Range(reveals.recv) \subseteq Range(commits.recv)
    /\ Range(reveals.sent) \subseteq Range(commits.sent)
    /\ RevealsDone =>
          /\ Range(reveals.recv) = Range(commits.recv)
          /\ Range(reveals.sent) = Range(commits.sent)

\* Received ranges revealed in another order than they were committed in,
\* and a sent range.
C26_Witness ==
    /\ RevealsDone
    /\ Len(commits.recv) >= 2
    /\ reveals.recv # commits.recv
    /\ Len(reveals.sent) = 1

Ops == [i \in DOMAIN events |-> events[i].op]
Happened(op) == \E i \in DOMAIN events : events[i].op = op

\* The place of a step of notarize in the order of a run that succeeds.
Rank(op) ==
    CASE op = "response" -> 1
      [] op = "recv_ranges" -> 2
      [] op = "sent_ranges" -> 3
      [] op \in {"commit_recv", "commit_sent"} -> 4
      [] op = "prover_notarize" -> 5
      [] OTHER -> 0

\* C27: when the response's status is not 200, notarize returns
\* NotarizationFailed and no commit_recv, commit_sent or prover.notarize
\* happens; when notarize has succeeded, its steps happened in the order:
\* response with status 200, ranges of the received data, ranges of the
\* sent data, the commits of all of them, the attestation request.
C27_NotarizeOrder ==
    /\ (response # None /\ response.status # StatusOk) =>
          /\ outcome = Err("NotarizationFailed")
          /\ ~Happened("commit_recv")
          /\ ~Happened("commit_sent")
          /\ ~Happened("prover_notarize")
    /\ step = "present" =>
          /\ \A i, j \in DOMAIN events : Rank(Ops[i]) < Rank(Ops[j]) => i < j
          /\ \A op \in {"response", "recv_ranges", "sent_ranges", "prover_notarize"} :
                Count(Ops, op) = 1
          /\ \E i \in DOMAIN events : events[i] = Event("response", <<StatusOk>>)
          /\ Count(Ops, "commit_recv") = Len(recv_ranges)
          /\ Count(Ops, "commit_sent") = Len(sent_ranges)
          /\ commits = [recv |-> recv_ranges, sent |-> sent_ranges]

\* notarize succeeded after commits of received ranges and of a sent range.
C27_Witness ==
    /\ step = "present"
    /\ Len(commits.recv) >= 2
    /\ Len(commits.sent) = 1
    /\ Happened("prover_notarize")

Started == step # "idle"
FirstIndex(op) == CHOOSE i \in DOMAIN events : events[i].op = op /\ \A j \in 1..(i - 1) : events[j].op # op

\* C28: a request whose URI has no scheme or a scheme other than https is
\* answered with InvalidScheme and nothing else happens: notarize is not
\* called, no connection to the notary or to the server is opened.  notarize
\* runs for an https request only, and create_presentation only after
\* notarize has obtained the attestation.
C28_InvalidScheme ==
    /\ (Started /\ request.scheme # <<"https">>) =>
          /\ outcome = Err("InvalidScheme")
          /\ step = "done"
          /\ events = <<>>
          /\ response = None
    /\ (Started /\ request.scheme = <<"https">>) =>
          /\ outcome # Err("InvalidScheme")
          /\ Happened("notarize")
          /\ events[1].op = "notarize"
    /\ Happened("create_presentation") =>
          /\ request.scheme = <<"https">>
          /\ Happened("prover_notarize")
          /\ FirstIndex("notarize") < FirstIndex("prover_notarize")
          /\ FirstIndex("prover_notarize") < FirstIndex("create_presentation")

\* An http request refused.
C28_Witness ==
    /\ request.scheme = <<"http">>
    /\ step = "done"
    /\ outcome = Err("InvalidScheme")
    /\ events = <<>>

\* The sent transcript's conversion, where there is one.
SentRequest == RequestTryFrom(request.sent.text, request.sent.parse[1])
SentConverts ==
    /\ request.sent.utf8
    /\ request.sent.parse # <<>>
    /\ SentRequest.status = "Ok"

Least(S) == CHOOSE i \in S : \A j \in S : i <= j
SymbolAt == Occurrences(request.sent.text, "symbol=")
\* The occurrences of " HTTP" after the first "symbol=".
HttpAfterSymbol == {i \in Occurrences(request.sent.text, " HTTP") : i > Least(SymbolAt)}

\* C29: get_sent_data_ranges returns no range for a sent transcript that is
\* not UTF-8, that the request grammar rejects or that Request::try_from
\* refuses, "symbol=" in it or not; for the others it returns the one range
\* from the first "symbol=" to the first " HTTP" after it, which lies in the
\* transcript, and no range when one of the two is missing; the range of the
\* request line and the ranges of the headers are never returned.
C29_SentRanges ==
    Happened("sent_ranges") =>
        /\ ~SentConverts => sent_ranges = <<>>
        /\ SentConverts =>
              /\ sent_ranges =
                    IF SymbolAt # {} /\ HttpAfterSymbol # {}
                    THEN <<<<Least(SymbolAt), Least(HttpAfterSymbol)>>>>
                    ELSE <<>>
              /\ \A i \in DOMAIN sent_ranges :
                    /\ InTranscript(sent_ranges[i], request.sent.text)
                    /\ sent_ranges[i] # SentRequest.request_line.range
                    /\ \A h \in DOMAIN SentRequest.headers :
                          sent_ranges[i] # SentRequest.headers[h].range

\* "symbol=" twice in the request target, and the range from the first.
C29_Witness ==
    /\ Happened("sent_ranges")
    /\ SentConverts
    /\ Cardinality(SymbolAt) = 2
    /\ Len(sent_ranges) = 1
    /\ sent_ranges[1][1] = Least(SymbolAt)

====
